---- MODULE Spec2Model ----
(***************************************************************************)
(* StableRisk: data fusion and risk scoring engine.                        *)
(*                                                                         *)
(* Units.  Scores are integers in hundredths (2.5 is 250, the cap 5 is     *)
(* 500); the weighted total is in ten-thousandths (weights in hundredths). *)
(* Prices are integers in 1/10000 of a dollar (the peg 1.0 is 10000), so   *)
(* a percentage deviation d is |price - 10000| / 100.  Liquidity amounts   *)
(* are in millions of dollars.  The wall clock and the audit dates of the  *)
(* scoring engine are counted in months.  Calendar days of the price       *)
(* series are day numbers counted from Monday 2023-12-25 (day 0).          *)
(***************************************************************************)
EXTENDS Integers, Sequences, FiniteSets, TLC

VARIABLES
    data,        \* the argument of calculateRiskScore
    now,         \* the wall clock read by new Date() (months)
    reports,     \* the reports returned so far, oldest first
    calledAt,    \* the clock value at each invocation
    revision,    \* which revision of the coin resolver is deployed
    catalogue,   \* the provider's /coins/list answer, in listing order
    ticker,      \* the ticker asked for
    coinCache,   \* the resolver's cache, keyed by lowercased ticker
    resolution,  \* the outcome of the last fetchCoinInfo
    priceData,   \* the provider's daily price series, oldest first
    tzWest,      \* whether the host's time zone is west of UTC
    pegCache,    \* the peg analysis cache entry of the ticker
    pegResult,   \* what the last analyzePegStability returned
    auditFiles,  \* the code search answer: the repository's audit files
    auditResult, \* what the last getAuditHistory returned
    arrivals,    \* the number of requests still to arrive at the route
    unhealthy,   \* the upstream services whose requests may fail
    requests,    \* the requests the route has received, in order of arrival
    reportCache, \* the route's cache, keyed by risk_report_ + lowercased ticker
    serviceCache \* the keys held by the other services' caches

scoringVars == <<data, now, reports, calledAt>>

resolverVars == <<revision, catalogue, ticker, coinCache, resolution>>

pegVars == <<priceData, tzWest, pegCache, pegResult>>

auditVars == <<auditFiles, auditResult>>

routeVars == <<arrivals, unhealthy, requests, reportCache, serviceCache>>

vars == <<data, now, reports, calledAt, revision, catalogue, ticker, coinCache, resolution,
          priceData, tzWest, pegCache, pegResult, auditFiles, auditResult,
          arrivals, unhealthy, requests, reportCache, serviceCache>>

NULL == [null |-> TRUE]

(***************************************************************************)
(* Bounds of the model.                                                    *)
(***************************************************************************)
MaxAudits == 4
MaxPegEvents == 3
MaxChains == 6
MaxTicks == 2
MaxCalls == 2
MaxCatalogue == 3
MaxBody == 3
MaxSamples == 2
MaxAuditFiles == 3
MaxRetries == 4
MaxSpikes == 6

Max(a, b) == IF a > b THEN a ELSE b
Min(a, b) == IF a < b THEN a ELSE b
Abs(a) == IF a < 0 THEN 0 - a ELSE a

RECURSIVE SumSeq(_)
SumSeq(s) == IF s = <<>> THEN 0 ELSE Head(s) + SumSeq(Tail(s))

RECURSIVE MaxSeq(_)
MaxSeq(s) == IF Len(s) = 1 THEN s[1] ELSE Max(Head(s), MaxSeq(Tail(s)))

(***************************************************************************)
(* Array.prototype.sort with a numeric comparator is stable: elements      *)
(* that compare equal keep their relative order.  SortAsc sorts a sequence *)
(* of records ascending by their key field.                                *)
(***************************************************************************)
RECURSIVE InsertStable(_, _)
InsertStable(x, s) ==
    IF s = <<>> THEN <<x>>
    ELSE IF x.key < Head(s).key THEN <<x>> \o s
    ELSE <<Head(s)>> \o InsertStable(x, Tail(s))

RECURSIVE SortAsc(_)
SortAsc(s) ==
    IF s = <<>> THEN <<>>
    ELSE InsertStable(s[Len(s)], SortAsc(SubSeq(s, 1, Len(s) - 1)))

ClampOmitted(score) == score

\* Math.max(0, Math.min(5, score))
Clamp(score) == Max(0, Min(500, score))

(***************************************************************************)
(* scoringEngine.js: descriptions                                          *)
(***************************************************************************)
getAuditDescription(score) ==
    IF score >= 450 THEN "Excellent audit history with minimal findings"
    ELSE IF score >= 400 THEN "Strong audit history with few significant findings"
    ELSE IF score >= 350 THEN "Good audit history with some resolved issues"
    ELSE IF score >= 300 THEN "Adequate audit history with several findings"
    ELSE IF score >= 250 THEN "Mixed audit history with notable concerns"
    ELSE IF score >= 200 THEN "Limited audit history with significant findings"
    ELSE IF score >= 100 THEN "Poor audit history with critical issues"
    ELSE "No verifiable audit history"

getPegStabilityDescription(score) ==
    IF score >= 450 THEN "Exceptional stability with minimal deviation from peg"
    ELSE IF score >= 400 THEN "Excellent stability with minimal deviation from peg"
    ELSE IF score >= 350 THEN "Very good stability with occasional minor deviations"
    ELSE IF score >= 300 THEN "Good stability with manageable deviations"
    ELSE IF score >= 250 THEN "Moderate stability with notable historical deviations"
    ELSE IF score >= 200 THEN "Fair stability with significant historical deviations"
    ELSE IF score >= 100 THEN "Poor stability with frequent deviations from peg"
    ELSE "Very unstable with severe historical depegging events"

getTransparencyDescription(score) ==
    IF score >= 450 THEN "Industry-leading transparency with comprehensive disclosures"
    ELSE IF score >= 400 THEN "Excellent transparency with detailed disclosures"
    ELSE IF score >= 350 THEN "Very good transparency with regular disclosures"
    ELSE IF score >= 300 THEN "Good transparency with adequate disclosures"
    ELSE IF score >= 250 THEN "Moderate transparency with some disclosure gaps"
    ELSE IF score >= 200 THEN "Limited transparency with significant disclosure gaps"
    ELSE IF score >= 100 THEN "Poor transparency with minimal disclosures"
    ELSE "Severely lacking transparency with no meaningful disclosures"

getOracleDescription(score) ==
    IF score >= 450 THEN "Exceptional oracle implementation with multiple safeguards"
    ELSE IF score >= 400 THEN "Excellent oracle implementation with strong security"
    ELSE IF score >= 350 THEN "Very good oracle setup with adequate safeguards"
    ELSE IF score >= 300 THEN "Good oracle implementation with basic security measures"
    ELSE IF score >= 250 THEN "Moderate oracle setup with some centralization"
    ELSE IF score >= 200 THEN "Basic oracle implementation with centralization concerns"
    ELSE IF score >= 100 THEN "Concerning oracle setup with significant vulnerabilities"
    ELSE "Highly vulnerable or undisclosed oracle implementation"

getLiquidityDescription(score) ==
    IF score >= 450 THEN "Exceptional liquidity across multiple chains"
    ELSE IF score >= 400 THEN "Excellent liquidity across multiple chains"
    ELSE IF score >= 350 THEN "Very good liquidity with good distribution"
    ELSE IF score >= 300 THEN "Good liquidity across major platforms"
    ELSE IF score >= 250 THEN "Moderate liquidity with some concentration"
    ELSE IF score >= 200 THEN "Limited liquidity with significant concentration"
    ELSE IF score >= 100 THEN "Poor liquidity across most platforms"
    ELSE "Very low liquidity presenting significant trading risks"

(***************************************************************************)
(* scoringEngine.js: detail bullets.  A bullet is <<text, a, b>>: the      *)
(* fixed text and the numbers interpolated into it (0 when unused).  The   *)
(* average deviation sum/len is carried as the pair (sum, len); 0/0 is the *)
(* NaN that an empty event list produces.                                  *)
(***************************************************************************)
generateAuditDetails(auditHistory, score) ==
    IF Len(auditHistory) = 0
    THEN << <<"No public audits found", 0, 0>>,
            <<"Consider requesting audit information from the team", 0, 0>> >>
    ELSE
      LET keyed == [i \in 1..Len(auditHistory) |->
                       [key |-> 0 - auditHistory[i].date, val |-> auditHistory[i]]]
          sortedAudits == SortAsc(keyed)
          recentAudit == sortedAudits[1].val
          critical == SumSeq([i \in 1..Len(auditHistory) |-> auditHistory[i].issues.critical])
          high == SumSeq([i \in 1..Len(auditHistory) |-> auditHistory[i].issues.high])
      IN  << <<"Most recent audit on", recentAudit.date, 0>> >>
          \o (IF critical > 0
              THEN << <<"critical issues identified across all audits", critical, 0>> >>
              ELSE <<>>)
          \o (IF high > 0
              THEN << <<"high severity issues identified across all audits", high, 0>> >>
              ELSE <<>>)
          \o << <<"audits conducted in total", Len(auditHistory), 0>> >>
          \o (IF score >= 400
              THEN << <<"Strong security practices demonstrated through regular audits", 0, 0>> >>
              ELSE IF score <= 250
              THEN << <<"Audit frequency and coverage could be improved", 0, 0>> >>
              ELSE <<>>)

(***************************************************************************)
(* Deviations from the peg.  Prices are in 1/10000 $, idealPeg is 10000,   *)
(* and a deviation is in hundredths of a percent.  The code works in       *)
(* doubles: price - 1 is exact, but the decimal price itself is rounded,   *)
(* so a price exactly on a threshold falls on one side of it.              *)
(* doubleExcess is the sign of that rounding for the prices on the         *)
(* thresholds 0.1 %, 0.2 %, 1 %, 2 %, 3 %, 5 % and 10 %; any other price   *)
(* is decided by its exact value.                                          *)
(***************************************************************************)
idealPeg == 10000

doubleExcessExact(price) == 0

doubleExcess(price) ==
    IF price = 10010 THEN 0 - 1
    ELSE IF price = 9000 THEN 0 - 1
    ELSE IF price \in {9990, 10020, 9980, 10100, 9900, 10200, 9800, 10300, 9700,
                       10500, 9500, 11000} THEN 1
    ELSE 0

\* Math.abs(price - idealPeg) compared with a threshold, both in 1/10000 $
exceeds(price, threshold) ==
    \/ Abs(price - idealPeg) > threshold
    \/ Abs(price - idealPeg) = threshold /\ doubleExcess(price) > 0

isBelow(price, threshold) ==
    \/ Abs(price - idealPeg) < threshold
    \/ Abs(price - idealPeg) = threshold /\ doubleExcess(price) < 0

\* Math.abs((event.price - 1.0) / 1.0 * 100), in hundredths of a percent
Deviation(event) == Abs(event.price - 10000)

generatePegStabilityDetails(pegEvents, maxDeviation, avgSum, avgLen) ==
    LET depegEvents == SelectSeq(pegEvents, LAMBDA e : exceeds(e.price, 500))
        worstDev == MaxSeq([i \in 1..Len(depegEvents) |-> Deviation(depegEvents[i])])
        worstEvent == depegEvents[CHOOSE i \in 1..Len(depegEvents) :
                          /\ Deviation(depegEvents[i]) = worstDev
                          /\ \A j \in 1..(i - 1) : Deviation(depegEvents[j]) < worstDev]
    IN  << <<"Maximum historical deviation from peg", maxDeviation, 0>>,
           <<"Average deviation from peg", avgSum, avgLen>>,
           <<"significant depeg events (>5% deviation)", Len(depegEvents), 0>> >>
        \o (IF Len(depegEvents) > 0
            THEN << <<"Worst depeg event", worstEvent.date, Deviation(worstEvent)>> >>
            ELSE << <<"No significant depeg events in analyzed history", 0, 0>> >>)

generateOracleDetails(oracleInfo) ==
    (IF oracleInfo.usesChainlink
     THEN << <<"Uses Chainlink price feeds for reliable data", 0, 0>> >> ELSE <<>>)
    \o (IF oracleInfo.hasMultipleOracles
        THEN << <<"Multiple independent price oracles for redundancy", 0, 0>> >>
        ELSE << <<"Relies on a single oracle source", 0, 0>> >>)
    \o (IF oracleInfo.hasTimelock
        THEN << <<"Timelock mechanism adds security to price updates", 0, 0>> >> ELSE <<>>)
    \o (IF oracleInfo.hasPriceDeviation
        THEN << <<"Includes price deviation checks to prevent manipulation", 0, 0>> >> ELSE <<>>)
    \o (IF oracleInfo.centralizedOracle
        THEN << <<"Centralized oracle components present security risks", 0, 0>> >>
        ELSE << <<"Decentralized oracle architecture reduces central points of failure", 0, 0>> >>)

generateLiquidityDetails(liquidityData, totalLiquidity, topChainLiquidity) ==
    LET n == Len(liquidityData)
        topChain == liquidityData[CHOOSE i \in 1..n :
                        /\ liquidityData[i].amount = topChainLiquidity
                        /\ \A j \in 1..(i - 1) : liquidityData[j].amount < topChainLiquidity]
        over90 == totalLiquidity > 0 /\ topChainLiquidity * 100 > 90 * totalLiquidity
        under50 == totalLiquidity > 0 => topChainLiquidity * 100 < 50 * totalLiquidity
    IN  << <<"Total liquidity across chains", totalLiquidity, n>> >>
        \o (IF n > 0
            THEN << <<"of liquidity concentrated on", topChainLiquidity, topChain.chain>> >>
            ELSE <<>>)
        \o (IF over90
            THEN << <<"High concentration risk with majority on a single chain", 0, 0>> >>
            ELSE IF under50 /\ n >= 3
            THEN << <<"Well-distributed liquidity across multiple chains", 0, 0>> >>
            ELSE <<>>)
        \o (IF totalLiquidity > 1000
            THEN << <<"High trading volume supports market stability", 0, 0>> >>
            ELSE IF totalLiquidity < 100
            THEN << <<"Lower liquidity may lead to higher slippage on larger trades", 0, 0>> >>
            ELSE <<>>)

(***************************************************************************)
(* scoringEngine.js: the five factor scorers                               *)
(***************************************************************************)
oneYearAgoHalved(clock) == clock - 6

\* oneYearAgo.setFullYear(oneYearAgo.getFullYear() - 1)
oneYearAgo(clock) == clock - 12

\* clamps before the commit bonus as well as after it
calculateAuditScoreClampedTwice(auditHistory, githubData, clock) ==
    LET n == Len(auditHistory)
        s1 == 250 + (IF n >= 4 THEN 75
                     ELSE IF n >= 2 THEN 50
                     ELSE IF n = 1 THEN 25
                     ELSE 0 - 100)
        recentAudits == SelectSeq(auditHistory, LAMBDA audit : audit.date >= oneYearAgo(clock))
        s2 == s1 + (IF Len(recentAudits) >= 2 THEN 75
                    ELSE IF Len(recentAudits) = 1 THEN 50
                    ELSE 0)
        criticalIssues == SumSeq([i \in 1..n |-> auditHistory[i].issues.critical])
        highIssues == SumSeq([i \in 1..n |-> auditHistory[i].issues.high])
        s3 == IF criticalIssues > 0 THEN s2 - 50 * criticalIssues ELSE s2
        s4 == Clamp(IF highIssues > 2 THEN s3 - 25 * (highIssues - 2) ELSE s3)
        s5 == IF githubData # NULL /\ githubData.recentCommits > 20 THEN s4 + 25 ELSE s4
        score == Clamp(s5)
    IN  [name |-> "Audit History",
         score |-> score,
         description |-> getAuditDescription(score),
         details |-> generateAuditDetails(auditHistory, score)]

calculateAuditScore(auditHistory, githubData, clock) ==
    LET n == Len(auditHistory)
        s1 == 250 + (IF n >= 4 THEN 75
                     ELSE IF n >= 2 THEN 50
                     ELSE IF n = 1 THEN 25
                     ELSE 0 - 100)
        recentAudits == SelectSeq(auditHistory, LAMBDA audit : audit.date >= oneYearAgo(clock))
        s2 == s1 + (IF Len(recentAudits) >= 2 THEN 75
                    ELSE IF Len(recentAudits) = 1 THEN 50
                    ELSE 0)
        criticalIssues == SumSeq([i \in 1..n |-> auditHistory[i].issues.critical])
        highIssues == SumSeq([i \in 1..n |-> auditHistory[i].issues.high])
        s3 == IF criticalIssues > 0 THEN s2 - 50 * criticalIssues ELSE s2
        s4 == IF highIssues > 2 THEN s3 - 25 * (highIssues - 2) ELSE s3
        s5 == IF githubData # NULL /\ githubData.recentCommits > 20 THEN s4 + 25 ELSE s4
        score == Clamp(s5)
    IN  [name |-> "Audit History",
         score |-> score,
         description |-> getAuditDescription(score),
         details |-> generateAuditDetails(auditHistory, score)]

calculatePegStabilityScoreFlatPenalty(pegEvents) ==
    LET n == Len(pegEvents)
        maxDeviation == IF n = 0 THEN 0
                        ELSE MaxSeq([i \in 1..n |-> Deviation(pegEvents[i])])
        \* the price whose deviation the reduce keeps, the peg itself for no event
        maxPrice == IF n = 0 THEN idealPeg
                    ELSE pegEvents[CHOOSE i \in 1..n :
                             /\ Deviation(pegEvents[i]) = maxDeviation
                             /\ \A j \in 1..(i - 1) : Deviation(pegEvents[j]) < maxDeviation].price
        avgSum == SumSeq([i \in 1..n |-> Deviation(pegEvents[i])])
        \* avgDeviation = avgSum / n; with n = 0 it is NaN and compares false
        avgBelowHalf == n > 0 /\ avgSum < 50 * n
        avgAboveTwo == n > 0 /\ avgSum > 200 * n
        depegEvents == Len(SelectSeq(pegEvents, LAMBDA e : exceeds(e.price, 500)))
        s1 == 300 + (IF isBelow(maxPrice, 100) THEN 150
                     ELSE IF isBelow(maxPrice, 300) THEN 100
                     ELSE IF isBelow(maxPrice, 500) THEN 50
                     ELSE IF exceeds(maxPrice, 1000) THEN 0 - 100
                     ELSE IF exceeds(maxPrice, 500) THEN 0 - 50
                     ELSE 0)
        s2 == s1 + (IF avgBelowHalf THEN 50 ELSE IF avgAboveTwo THEN 0 - 50 ELSE 0)
        s3 == IF depegEvents = 0 THEN s2 + 50 ELSE s2 - 50
        score == Clamp(s3)
    IN  [name |-> "Peg Stability",
         score |-> score,
         description |-> getPegStabilityDescription(score),
         details |-> generatePegStabilityDetails(pegEvents, maxDeviation, avgSum, n)]

\* calculatePegStabilityScore giving the bonus of a series without depeg
\* event only to a series that has events
calculatePegStabilityScoreEmptyUnrewarded(pegEvents) ==
    LET n == Len(pegEvents)
        maxDeviation == IF n = 0 THEN 0
                        ELSE MaxSeq([i \in 1..n |-> Deviation(pegEvents[i])])
        \* the price whose deviation the reduce keeps, the peg itself for no event
        maxPrice == IF n = 0 THEN idealPeg
                    ELSE pegEvents[CHOOSE i \in 1..n :
                             /\ Deviation(pegEvents[i]) = maxDeviation
                             /\ \A j \in 1..(i - 1) : Deviation(pegEvents[j]) < maxDeviation].price
        avgSum == SumSeq([i \in 1..n |-> Deviation(pegEvents[i])])
        \* avgDeviation = avgSum / n; with n = 0 it is NaN and compares false
        avgBelowHalf == n > 0 /\ avgSum < 50 * n
        avgAboveTwo == n > 0 /\ avgSum > 200 * n
        depegEvents == Len(SelectSeq(pegEvents, LAMBDA e : exceeds(e.price, 500)))
        s1 == 300 + (IF isBelow(maxPrice, 100) THEN 150
                     ELSE IF isBelow(maxPrice, 300) THEN 100
                     ELSE IF isBelow(maxPrice, 500) THEN 50
                     ELSE IF exceeds(maxPrice, 1000) THEN 0 - 100
                     ELSE IF exceeds(maxPrice, 500) THEN 0 - 50
                     ELSE 0)
        s2 == s1 + (IF avgBelowHalf THEN 50 ELSE IF avgAboveTwo THEN 0 - 50 ELSE 0)
        s3 == IF depegEvents = 0 /\ n > 0 THEN s2 + 50 ELSE s2 - 50 * depegEvents
        score == Clamp(s3)
    IN  [name |-> "Peg Stability",
         score |-> score,
         description |-> getPegStabilityDescription(score),
         details |-> generatePegStabilityDetails(pegEvents, maxDeviation, avgSum, n)]

calculatePegStabilityScore(pegEvents) ==
    LET n == Len(pegEvents)
        maxDeviation == IF n = 0 THEN 0
                        ELSE MaxSeq([i \in 1..n |-> Deviation(pegEvents[i])])
        \* the price whose deviation the reduce keeps, the peg itself for no event
        maxPrice == IF n = 0 THEN idealPeg
                    ELSE pegEvents[CHOOSE i \in 1..n :
                             /\ Deviation(pegEvents[i]) = maxDeviation
                             /\ \A j \in 1..(i - 1) : Deviation(pegEvents[j]) < maxDeviation].price
        avgSum == SumSeq([i \in 1..n |-> Deviation(pegEvents[i])])
        \* avgDeviation = avgSum / n; with n = 0 it is NaN and compares false
        avgBelowHalf == n > 0 /\ avgSum < 50 * n
        avgAboveTwo == n > 0 /\ avgSum > 200 * n
        depegEvents == Len(SelectSeq(pegEvents, LAMBDA e : exceeds(e.price, 500)))
        s1 == 300 + (IF isBelow(maxPrice, 100) THEN 150
                     ELSE IF isBelow(maxPrice, 300) THEN 100
                     ELSE IF isBelow(maxPrice, 500) THEN 50
                     ELSE IF exceeds(maxPrice, 1000) THEN 0 - 100
                     ELSE IF exceeds(maxPrice, 500) THEN 0 - 50
                     ELSE 0)
        s2 == s1 + (IF avgBelowHalf THEN 50 ELSE IF avgAboveTwo THEN 0 - 50 ELSE 0)
        s3 == IF depegEvents = 0 THEN s2 + 50 ELSE s2 - 50 * depegEvents
        score == Clamp(s3)
    IN  [name |-> "Peg Stability",
         score |-> score,
         description |-> getPegStabilityDescription(score),
         details |-> generatePegStabilityDetails(pegEvents, maxDeviation, avgSum, n)]

calculateTransparencyScore(transparencyScore, coinInfo) ==
    LET s0 == transparencyScore.score
        s1 == IF transparencyScore.hasReservesDashboard THEN s0 + 50 ELSE s0
        s2 == IF transparencyScore.hasRegularReporting THEN s1 + 50 ELSE s1
        s3 == IF ~transparencyScore.hasTransparencyPage THEN s2 - 100 ELSE s2
        s4 == IF coinInfo.collateralType = "Fiat-backed" /\ s3 < 300 THEN s3 - 50 ELSE s3
        s5 == IF coinInfo.collateralType = "Algorithmic" /\ s4 > 200 THEN s4 + 25 ELSE s4
        score == Clamp(s5)
    IN  [name |-> "Transparency",
         score |-> score,
         description |-> getTransparencyDescription(score),
         details |-> transparencyScore.details]

calculateOracleScore(githubData) ==
    IF githubData = NULL \/ githubData.oracleInfo = NULL
    THEN [name |-> "Oracle Setup",
          score |-> 200,
          description |-> "Limited information available about oracle implementation",
          details |-> << <<"No public oracle implementation details found", 0, 0>>,
                         <<"Unable to assess oracle security features", 0, 0>>,
                         <<"Consider relying on third-party oracle audits for this stablecoin", 0, 0>> >>]
    ELSE
      LET oracleInfo == githubData.oracleInfo
          s1 == 250 + (IF oracleInfo.usesChainlink THEN 75 ELSE 0)
          s2 == s1 + (IF oracleInfo.hasMultipleOracles THEN 75 ELSE 0)
          s3 == s2 + (IF oracleInfo.hasTimelock THEN 50 ELSE 0)
          s4 == s3 + (IF oracleInfo.hasPriceDeviation THEN 50 ELSE 0)
          s5 == s4 - (IF oracleInfo.centralizedOracle THEN 100 ELSE 0)
          score == Clamp(s5)
      IN  [name |-> "Oracle Setup",
           score |-> score,
           description |-> getOracleDescription(score),
           details |-> generateOracleDetails(oracleInfo)]

calculateLiquidityScoreNoDiversity(liquidityData) ==
    LET n == Len(liquidityData)
        totalLiquidity == SumSeq([i \in 1..n |-> liquidityData[i].amount])
        topChainLiquidity == IF n > 0
                             THEN MaxSeq([i \in 1..n |-> liquidityData[i].amount])
                             ELSE 0
        \* topChainPercentage = top / total * 100, or 0 when the total is 0
        pctAbove(p) == totalLiquidity > 0 /\ topChainLiquidity * 100 > p * totalLiquidity
        pctBelow(p) == totalLiquidity > 0 => topChainLiquidity * 100 < p * totalLiquidity
        s1 == 250 + (IF totalLiquidity >= 5000 THEN 150
                     ELSE IF totalLiquidity >= 1000 THEN 100
                     ELSE IF totalLiquidity >= 500 THEN 50
                     ELSE IF totalLiquidity < 100 THEN 0 - 50
                     ELSE IF totalLiquidity < 10 THEN 0 - 100
                     ELSE 0)
        s2 == s1 + (IF n <= 1 THEN 0 - 50 ELSE 0)
        s3 == s2 + (IF pctAbove(90) THEN 0 - 75
                    ELSE IF pctAbove(75) THEN 0 - 50
                    ELSE IF pctBelow(50) THEN 50
                    ELSE 0)
        score == Clamp(s3)
    IN  [name |-> "Liquidity Depth",
         score |-> score,
         description |-> getLiquidityDescription(score),
         details |-> generateLiquidityDetails(liquidityData, totalLiquidity, topChainLiquidity)]

calculateLiquidityScore(liquidityData) ==
    LET n == Len(liquidityData)
        totalLiquidity == SumSeq([i \in 1..n |-> liquidityData[i].amount])
        topChainLiquidity == IF n > 0
                             THEN MaxSeq([i \in 1..n |-> liquidityData[i].amount])
                             ELSE 0
        \* topChainPercentage = top / total * 100, or 0 when the total is 0
        pctAbove(p) == totalLiquidity > 0 /\ topChainLiquidity * 100 > p * totalLiquidity
        pctBelow(p) == totalLiquidity > 0 => topChainLiquidity * 100 < p * totalLiquidity
        s1 == 250 + (IF totalLiquidity >= 5000 THEN 150
                     ELSE IF totalLiquidity >= 1000 THEN 100
                     ELSE IF totalLiquidity >= 500 THEN 50
                     ELSE IF totalLiquidity < 100 THEN 0 - 50
                     ELSE IF totalLiquidity < 10 THEN 0 - 100
                     ELSE 0)
        s2 == s1 + (IF n >= 5 THEN 50 ELSE IF n <= 1 THEN 0 - 50 ELSE 0)
        s3 == s2 + (IF pctAbove(90) THEN 0 - 75
                    ELSE IF pctAbove(75) THEN 0 - 50
                    ELSE IF pctBelow(50) THEN 50
                    ELSE 0)
        score == Clamp(s3)
    IN  [name |-> "Liquidity Depth",
         score |-> score,
         description |-> getLiquidityDescription(score),
         details |-> generateLiquidityDetails(liquidityData, totalLiquidity, topChainLiquidity)]

(***************************************************************************)
(* scoringEngine.js: summary and aggregation                               *)
(***************************************************************************)
generateAdditionalCommentary(score) ==
    IF score >= 45000 THEN "It demonstrates excellent risk management practices across all evaluated factors."
    ELSE IF score >= 40000 THEN "It shows strong risk management with minor areas for improvement."
    ELSE IF score >= 35000 THEN "It maintains good risk management with some notable areas for improvement."
    ELSE IF score >= 30000 THEN "It has adequate risk management with several significant areas that could be strengthened."
    ELSE IF score >= 25000 THEN "It shows concerning risk factors that warrant careful consideration."
    ELSE IF score >= 20000 THEN "It has substantial risk factors that should be evaluated carefully before use."
    ELSE "It has critical risk factors that suggest extreme caution is warranted."

\* generateRiskSummary without the two sorts: the factors stay in the order
\* in which they are listed
generateRiskSummaryUnsorted(name, totalScore, factors) ==
    [name |-> name,
     riskLevel |-> IF totalScore >= 40000 THEN "low-risk"
                   ELSE IF totalScore >= 30000 THEN "moderately low-risk"
                   ELSE IF totalScore >= 20000 THEN "moderate-risk"
                   ELSE "high-risk",
     strengths |-> <<"audit history", "peg stability">>,
     weaknesses |-> <<"audit history">>,
     commentary |-> generateAdditionalCommentary(totalScore)]

generateRiskSummary(name, totalScore, factors) ==
    LET riskLevel == IF totalScore >= 40000 THEN "low-risk"
                     ELSE IF totalScore >= 30000 THEN "moderately low-risk"
                     ELSE IF totalScore >= 20000 THEN "moderate-risk"
                     ELSE "high-risk"
        factorScores == << [name |-> "audit history", score |-> factors.auditScore.score],
                           [name |-> "peg stability", score |-> factors.pegStabilityScore.score],
                           [name |-> "transparency", score |-> factors.transparencyFactor.score],
                           [name |-> "oracle setup", score |-> factors.oracleScore.score],
                           [name |-> "liquidity", score |-> factors.liquidityScore.score] >>
        \* factorScores.sort((a, b) => b.score - a.score)
        descending == SortAsc([i \in 1..5 |->
                          [key |-> 0 - factorScores[i].score, val |-> factorScores[i]]])
        strengths == <<descending[1].val.name, descending[2].val.name>>
        \* factorScores.sort((a, b) => a.score - b.score), on the array sorted above
        ascending == SortAsc([i \in 1..5 |->
                          [key |-> descending[i].val.score, val |-> descending[i].val]])
        weaknesses == <<ascending[1].val.name>>
    IN  [name |-> name,
         riskLevel |-> riskLevel,
         strengths |-> strengths,
         weaknesses |-> weaknesses,
         commentary |-> generateAdditionalCommentary(totalScore)]

weightsSkewed == [auditHistory |-> 25, pegStability |-> 25, transparency |-> 20,
                  oracleSetup |-> 15, liquidity |-> 25]

\* the weights of calculateRiskScore, in hundredths
weights == [auditHistory |-> 25, pegStability |-> 25, transparency |-> 20,
            oracleSetup |-> 15, liquidity |-> 15]

calculateRiskScore(d, clock) ==
    LET auditScore == calculateAuditScore(d.auditHistory, d.githubData, clock)
        pegStabilityScore == calculatePegStabilityScore(d.pegEvents)
        transparencyFactor == calculateTransparencyScore(d.transparencyScore, d.coinInfo)
        oracleScore == calculateOracleScore(d.githubData)
        liquidityScore == calculateLiquidityScore(d.liquidityData)
        totalScore == auditScore.score * weights.auditHistory
                      + pegStabilityScore.score * weights.pegStability
                      + transparencyFactor.score * weights.transparency
                      + oracleScore.score * weights.oracleSetup
                      + liquidityScore.score * weights.liquidity
        summary == generateRiskSummary(d.coinInfo.name, totalScore,
                       [auditScore |-> auditScore,
                        pegStabilityScore |-> pegStabilityScore,
                        transparencyFactor |-> transparencyFactor,
                        oracleScore |-> oracleScore,
                        liquidityScore |-> liquidityScore])
    IN  [coinInfo |-> d.coinInfo,
         totalScore |-> totalScore,
         summary |-> summary,
         factors |-> [auditHistory |-> auditScore,
                      pegStability |-> pegStabilityScore,
                      transparency |-> transparencyFactor,
                      oracleSetup |-> oracleScore,
                      liquidity |-> liquidityScore],
         pegEvents |-> d.pegEvents,
         auditHistory |-> d.auditHistory,
         liquidityData |-> d.liquidityData]

(***************************************************************************)
(* transparencyService.js: what checkTransparency hands to the engine.     *)
(* The page content is abstracted to the three indicator searches.         *)
(***************************************************************************)
checkTransparency(hasTransparencyPage, hasReservesDashboard, hasRegularReporting) ==
    LET score == 200 + (IF hasTransparencyPage THEN 100 ELSE 0)
                     + (IF hasReservesDashboard THEN 100 ELSE 0)
                     + (IF hasRegularReporting THEN 100 ELSE 0)
    IN  [score |-> score,
         hasTransparencyPage |-> hasTransparencyPage,
         hasReservesDashboard |-> hasReservesDashboard,
         hasRegularReporting |-> hasRegularReporting,
         details |-> << <<IF hasTransparencyPage THEN "Dedicated transparency page found"
                          ELSE "No dedicated transparency page", 0, 0>>,
                        <<IF hasReservesDashboard THEN "Live reserves dashboard available"
                          ELSE "No real-time reserves dashboard", 0, 0>>,
                        <<IF hasRegularReporting THEN "Regular reporting/attestations published"
                          ELSE "Limited public reporting", 0, 0>>,
                        <<"Overall transparency score", score, 0>> >>]

\* the catch branch of checkTransparency
checkTransparencyFailed ==
    [score |-> 200,
     hasTransparencyPage |-> FALSE,
     hasReservesDashboard |-> FALSE,
     hasRegularReporting |-> FALSE,
     details |-> << <<"Unable to verify transparency information", 0, 0>>,
                    <<"No public reserves dashboard found", 0, 0>>,
                    <<"Consider researching official documentation", 0, 0>> >>]

(***************************************************************************)
(* Inputs of calculateRiskScore.  Each input ranges over a rich set while  *)
(* the other inputs range over the two inputs that drive their factor to   *)
(* its lowest and highest score.                                           *)
(***************************************************************************)
SeqsUpTo(S, n) == UNION {[1..k -> S] : k \in 0..n}

Clocks == 20..(20 + MaxTicks)

Audit(date, critical, high) ==
    [firm |-> "Independent Auditor", date |-> date,
     issues |-> [critical |-> critical, high |-> high, medium |-> 0, low |-> 0]]

\* 14: six months before the first clock value; 9: crosses the one-year line
\* while the clock runs; 2: always older than a year
AuditPool == {Audit(14, 0, 0), Audit(14, 3, 1), Audit(9, 0, 0), Audit(9, 0, 3),
              Audit(2, 0, 0), Audit(2, 1, 4)}

\* getAuditHistory returns the audits newest first
AuditRich == {a \in SeqsUpTo(AuditPool, MaxAudits) :
                 \A i \in 1..Len(a) : \A j \in i..Len(a) : a[i].date >= a[j].date}

AuditCorner == { <<Audit(14, 3, 1), Audit(14, 3, 1)>>,
                 <<Audit(14, 0, 0), Audit(14, 0, 0), Audit(14, 0, 0), Audit(14, 0, 0)>> }

OracleInfos == [usesChainlink : BOOLEAN, hasMultipleOracles : BOOLEAN,
                hasTimelock : BOOLEAN, hasPriceDeviation : BOOLEAN,
                centralizedOracle : BOOLEAN]

GithubRich == {NULL}
              \cup [recentCommits : {0, 20, 21}, oracleInfo : {NULL}]
              \cup [recentCommits : {0, 21}, oracleInfo : OracleInfos]

GithubCorner == { NULL,
                  [recentCommits |-> 21,
                   oracleInfo |-> [usesChainlink |-> TRUE, hasMultipleOracles |-> TRUE,
                                   hasTimelock |-> TRUE, hasPriceDeviation |-> TRUE,
                                   centralizedOracle |-> FALSE]] }

\* no average of up to MaxPegEvents + 1 of these lies on 0.5 % or 2 %, where
\* the rounding of the sum would decide
PegPrices == {10005, 10030, 10080, 9750, 10500, 9400, 8900, 11000}

PegRich == {[i \in 1..Len(p) |-> [date |-> i, price |-> p[i]]] :
               p \in SeqsUpTo(PegPrices, MaxPegEvents)}

PegCorner == { <<>>,
               <<[date |-> 1, price |-> 8800], [date |-> 2, price |-> 8800],
                 [date |-> 3, price |-> 8800]>> }

CollateralTypes == {"Fiat-backed", "Algorithmic", "Unknown"}

TransparencyRich ==
    ({checkTransparency(a, b, c) : a \in BOOLEAN, b \in BOOLEAN, c \in BOOLEAN}
       \cup {checkTransparencyFailed}) \X CollateralTypes

TransparencyCorner == { <<checkTransparencyFailed, "Fiat-backed">>,
                        <<checkTransparency(TRUE, TRUE, TRUE), "Unknown">> }

\* $M; no top-chain share of these lies on 90 %, where the rounding of
\* the double would decide
Amounts == {5, 50, 240, 800, 6000}

\* getLiquidityData sorts the exchanges by amount, largest first
LiquidityRich ==
    {[i \in 1..Len(a) |-> [chain |-> i, amount |-> a[i]]] :
        a \in {b \in SeqsUpTo(Amounts, MaxChains) :
                  \A i \in 1..Len(b) : \A j \in i..Len(b) : b[i] >= b[j]}}

LiquidityCorner == { <<[chain |-> 1, amount |-> 5]>>,
                     [i \in 1..5 |-> [chain |-> i, amount |-> 2000]] }

DataOf(a, g, p, t, l) ==
    [coinInfo |-> [name |-> "USDX", collateralType |-> t[2]],
     githubData |-> g,
     auditHistory |-> a,
     pegEvents |-> p,
     transparencyScore |-> t[1],
     liquidityData |-> l]

\* every adapter degraded: no audits, no peg events, no repository data,
\* the transparency fallback and no liquidity data
DegradedInput == DataOf(<<>>, NULL, <<>>, <<checkTransparencyFailed, "Unknown">>, <<>>)

(***************************************************************************)
(* Strings.  A string is a sequence of characters: includes() is a search  *)
(* for a contiguous occurrence, toLowerCase() maps the letters A-Z.        *)
(***************************************************************************)
includes(text, pattern) ==
    \E i \in 1..(Len(text) - Len(pattern) + 1) :
        SubSeq(text, i, i + Len(pattern) - 1) = pattern

UpperLetters == "ABCDEFGHIJKLMNOPQRSTUVWXYZ"
LowerLetters == "abcdefghijklmnopqrstuvwxyz"

LowerOf ==
    [c \in {SubSeq(UpperLetters, k, k) : k \in 1..26} |->
        LET k == CHOOSE k \in 1..26 : SubSeq(UpperLetters, k, k) = c
        IN  SubSeq(LowerLetters, k, k)]

toLowerChar(c) == IF c \in DOMAIN LowerOf THEN LowerOf[c] ELSE c

RECURSIVE toLowerCase(_)
toLowerCase(str) ==
    IF Len(str) = 0 THEN ""
    ELSE toLowerChar(SubSeq(str, 1, 1)) \o toLowerCase(SubSeq(str, 2, Len(str)))

\* Array.prototype.join(' ')
RECURSIVE join(_)
join(strs) ==
    IF Len(strs) = 0 THEN ""
    ELSE IF Len(strs) = 1 THEN strs[1]
    ELSE strs[1] \o " " \o join(Tail(strs))

(***************************************************************************)
(* A platforms object is the sequence of its entries [id, address] in key  *)
(* order; an address may be the empty string.                              *)
(***************************************************************************)
keys(platforms) == [i \in 1..Len(platforms) |-> platforms[i].id]

\* platforms[id] is truthy
hasPlatform(platforms, id) ==
    \E i \in 1..Len(platforms) : platforms[i].id = id /\ platforms[i].address # ""

(***************************************************************************)
(* The catalogue: coins the provider may list.                             *)
(***************************************************************************)
Coin(id, symbol, name, platforms, rank) ==
    [id |-> id, symbol |-> symbol, name |-> name, platforms |-> platforms,
     market_cap_rank |-> rank]

On(id) == [id |-> id, address |-> "0x1"]

CoinPool ==
    { Coin("usdx", "usdx", "USDX", <<On("ethereum")>>, 0),
      Coin("bridged-polygon-usdx", "usdx", "Bridged USDX (Polygon)", <<On("polygon-pos")>>, 0),
      Coin("usdx-stable", "USDx", "USDX Stable", <<On("tron")>>, 40),
      Coin("usdx-fi", "usdx", "USDXFi", <<On("ethereum")>>, 0),
      Coin("usdx-fin", "usdx", "USDfin", <<On("xdai")>>, 0),
      Coin("native-usdx-wormhole-ethereum", "usdx", "Native USDX Original", <<On("ethereum")>>, 0),
      Coin("usdx-l", "usdx", "USDXL", <<On("ethereum"), On("polygon-pos")>>, 0),
      Coin("usdx-wide", "usdx", "USDXWide",
           <<On("ethereum"), On("tron"), On("solana"), On("cardano")>>, 0),
      Coin("usdx-classic", "usdx", "USDXClassic", <<>>, 0),
      Coin("dai", "dai", "Dai", <<On("ethereum")>>, 0) }

Tickers == {"USDX", "usdx", "DAI"}

\* listings of distinct coins
Catalogues ==
    {c \in SeqsUpTo(CoinPool, MaxCatalogue) :
        \A i \in 1..Len(c) : \A j \in 1..Len(c) : i # j => c[i] # c[j]}

(***************************************************************************)
(* The strict revision of the resolver: BRIDGE_PATTERNS, NATIVE_CHAINS,    *)
(* detectBridgeToken, calculateNativeScore, fetchCoinInfo                  *)
(***************************************************************************)
BRIDGE_PATTERNS ==
    << [category |-> "bridgeKeywords",
        patterns |-> <<"bridged", "wrapped", "bridge", "pegged", "synthetic", "mirrored",
                       "portal", "anyswap", "multichain", "wormhole">>],
       [category |-> "chainBridges",
        patterns |-> <<"bsc", "bnb", "polygon", "matic", "avalanche", "avax", "arbitrum",
                       "optimism", "harmony", "fantom", "aurora", "metis", "zksync",
                       "starknet", "base", "linea", "scroll", "mantle", "manta">>],
       [category |-> "platformPatterns",
        patterns |-> <<"binance-peg", "layer2", "l2.", "sidechain", "rollup">>],
       [category |-> "bridgeProtocols",
        patterns |-> <<"axelar", "celer", "hop", "across", "stargate", "layerzero",
                       "hyperlane", "synapse">>] >>

NATIVE_CHAINS ==
    << [id |-> "ethereum", weight |-> 100, keywords |-> <<"mainnet", "erc20", "eth">>],
       [id |-> "tron", weight |-> 90, keywords |-> <<"trc20", "trx">>],
       [id |-> "bitcoin", weight |-> 85, keywords |-> <<"btc", "omni">>],
       [id |-> "solana", weight |-> 80, keywords |-> <<"sol", "spl">>],
       [id |-> "cardano", weight |-> 75, keywords |-> <<"ada">>] >>

\* the text detectBridgeToken searches; the listing carries no description
bridgeText(coin, platforms) ==
    toLowerCase(join(<<coin.name, coin.id, coin.symbol, join(keys(platforms)), "">>))

\* the categories of BRIDGE_PATTERNS with a pattern occurring in the text
matchedCategories(coin, platforms) ==
    {c \in 1..Len(BRIDGE_PATTERNS) :
        \E k \in 1..Len(BRIDGE_PATTERNS[c].patterns) :
            includes(bridgeText(coin, platforms), toLowerCase(BRIDGE_PATTERNS[c].patterns[k]))}

detectBridgeToken(coin, platforms) ==
    LET matched == matchedCategories(coin, platforms)
        platformList == keys(platforms)
        onMajorChain == \E i \in 1..Len(platformList) : \E n \in 1..Len(NATIVE_CHAINS) :
                            includes(platformList[i], NATIVE_CHAINS[n].id)
    IN  IF matched # {}
        THEN [isBridged |-> TRUE,
              reason |-> "Matched " \o BRIDGE_PATTERNS[CHOOSE c \in matched :
                             \A d \in matched : c <= d].category \o " pattern"]
        ELSE IF Len(platformList) > 0 /\ ~onMajorChain
        THEN [isBridged |-> TRUE, reason |-> "No major chain deployment"]
        ELSE IF Len(platformList) > 3
        THEN [isBridged |-> TRUE, reason |-> "Deployed on too many chains"]
        ELSE [isBridged |-> FALSE, reason |-> "No bridge indicators found"]

calculateNativeScore(coin, platforms) ==
    LET textToAnalyze == toLowerCase(join(<<coin.name, coin.id, coin.symbol>>))
        chainScore(n) ==
            IF hasPlatform(platforms, NATIVE_CHAINS[n].id)
            THEN NATIVE_CHAINS[n].weight
                 + 20 * Cardinality({k \in 1..Len(NATIVE_CHAINS[n].keywords) :
                                        includes(textToAnalyze, NATIVE_CHAINS[n].keywords[k])})
            ELSE 0
    IN  IF detectBridgeToken(coin, platforms).isBridged
        THEN 0 - 1000
        ELSE SumSeq([n \in 1..Len(NATIVE_CHAINS) |-> chainScore(n)])
             + (IF ~includes(coin.name, " ") THEN 30 ELSE 0)
             + (IF Len(coin.id) < 10 THEN 20 ELSE 0)
             + (IF coin.id = toLowerCase(coin.symbol) THEN 50 ELSE 0)
             + (IF coin.market_cap_rank # 0 THEN Max(0, 100 - coin.market_cap_rank) ELSE 0)

\* the nativeScore field fetchCoinInfo attaches to every listed coin
nativeScore == [coin \in CoinPool |-> calculateNativeScore(coin, coin.platforms)]

\* the filter fetchCoinInfo applies after scoring
isQualifiedOrEqual(score) == score >= 0 - 1000

isQualified(score) == score > 0 - 1000

notFoundMessage(t) == "Stablecoin " \o t \o " not found"

matchingCoinsStrictUnsorted(coinsList, t) ==
    LET matching == SelectSeq(coinsList, LAMBDA c : toLowerCase(c.symbol) = toLowerCase(t))
        scored == [i \in 1..Len(matching) |->
                      [key |-> 0 - nativeScore[matching[i]], val |-> matching[i]]]
    IN  SelectSeq(scored, LAMBDA c : isQualified(0 - c.key))

\* the candidates fetchCoinInfo keeps, best first
matchingCoinsStrict(coinsList, t) ==
    LET matching == SelectSeq(coinsList, LAMBDA c : toLowerCase(c.symbol) = toLowerCase(t))
        scored == [i \in 1..Len(matching) |->
                      [key |-> 0 - nativeScore[matching[i]], val |-> matching[i]]]
        kept == SelectSeq(scored, LAMBDA c : isQualified(0 - c.key))
    IN  SortAsc(kept)

\* the coinInfo built from the detail answer for the selected coin
coinInfoOf(coin) == [id |-> coin.id, name |-> coin.name]

\* fetchCoinInfo without its cache: listOk and detailOk tell whether the
\* two provider requests succeed
resolveStrict(coinsList, t, listOk, detailOk) ==
    IF ~listOk
    THEN [kind |-> "error", message |-> "Request failed", listed |-> FALSE]
    ELSE LET matchingCoins == matchingCoinsStrict(coinsList, t)
         IN  IF Len(matchingCoins) = 0
             THEN [kind |-> "error", message |-> notFoundMessage(t), listed |-> TRUE]
             ELSE IF ~detailOk
             THEN [kind |-> "error", message |-> "Request failed", listed |-> TRUE]
             ELSE [kind |-> "coinInfo", selectedCoin |-> matchingCoins[1].val,
                   coinInfo |-> coinInfoOf(matchingCoins[1].val), listed |-> TRUE]

(***************************************************************************)
(* The keyword revision of the resolver (services/coinGeckoService.js):    *)
(* BRIDGE_KEYWORDS, NATIVE_KEYWORDS, isBridgedToken, getNativeScore,       *)
(* fetchCoinInfo.  getNativeScore is kept in tenths.                       *)
(***************************************************************************)
BRIDGE_KEYWORDS ==
    <<"bridged", "wrapped", "bridge", "bsc", "polygon", "avalanche", "arbitrum",
      "optimism", "bnb", "wormhole", "portal", "multichain", "anyswap", "binance-peg",
      "harmony", "fantom">>

NATIVE_KEYWORDS == <<"native", "original", "mainnet", "ethereum">>

isBridgedToken(coin) ==
    LET nameAndId == toLowerCase(coin.name \o " " \o coin.id)
    IN  \E k \in 1..Len(BRIDGE_KEYWORDS) : includes(nameAndId, BRIDGE_KEYWORDS[k])

getNativeScore(coin) ==
    LET nameAndId == toLowerCase(coin.name \o " " \o coin.id)
    IN  20 * Cardinality({k \in 1..Len(NATIVE_KEYWORDS) : includes(nameAndId, NATIVE_KEYWORDS[k])})
        - 20 * Cardinality({k \in 1..Len(BRIDGE_KEYWORDS) : includes(nameAndId, BRIDGE_KEYWORDS[k])})
        + (50 - Min(Len(coin.id), 50))
        + (IF hasPlatform(coin.platforms, "ethereum") THEN 20 ELSE 0)

\* getNativeScore and isBridgedToken of every listed coin
keywordScore == [coin \in CoinPool |-> getNativeScore(coin)]

keywordBridged == [coin \in CoinPool |-> isBridgedToken(coin)]

onlyBridgedMessage(t) ==
    "Only bridged versions of " \o t \o " were found. Please search for the native token."

resolveKeyword(coinsList, t, listOk, detailOk) ==
    IF ~listOk
    THEN [kind |-> "error", message |-> "Request failed", listed |-> FALSE]
    ELSE LET matching == SelectSeq(coinsList, LAMBDA c : toLowerCase(c.symbol) = toLowerCase(t))
             matchingCoins == SortAsc([i \in 1..Len(matching) |->
                                  [key |-> 0 - keywordScore[matching[i]], val |-> matching[i]]])
         IN  IF Len(matching) = 0
             THEN [kind |-> "error", message |-> notFoundMessage(t), listed |-> TRUE]
             ELSE IF keywordBridged[matchingCoins[1].val]
             THEN [kind |-> "error", message |-> onlyBridgedMessage(t), listed |-> TRUE]
             ELSE IF ~detailOk
             THEN [kind |-> "error", message |-> "Request failed", listed |-> TRUE]
             ELSE [kind |-> "coinInfo", selectedCoin |-> matchingCoins[1].val,
                   coinInfo |-> coinInfoOf(matchingCoins[1].val), listed |-> TRUE]

(***************************************************************************)
(* Dates.  A 'YYYY-MM-DD' date is the number of days since 2023-12-01, a   *)
(* Friday.  new Date('YYYY-MM-DD') is midnight UTC of that day;            *)
(* getFullYear() and getDate() read it in the host's time zone, which is   *)
(* the previous day on a host west of UTC and the same day elsewhere.      *)
(***************************************************************************)
Months ==
    << [year |-> 2023, length |-> 31], [year |-> 2024, length |-> 31],
       [year |-> 2024, length |-> 29], [year |-> 2024, length |-> 31],
       [year |-> 2024, length |-> 30] >>

RECURSIVE monthOf(_, _)
monthOf(day, m) ==
    IF m = Len(Months) \/ day < Months[m].length THEN [index |-> m, day |-> day + 1]
    ELSE monthOf(day - Months[m].length, m + 1)

\* the host-local day of new Date(date); 2023-11-30 is day -1
localDay(date, west) == IF west THEN date - 1 ELSE date

getFullYear(date, west) ==
    IF localDay(date, west) < 0 THEN 2023 ELSE Months[monthOf(localDay(date, west), 1).index].year

getDate(date, west) ==
    IF localDay(date, west) < 0 THEN 30 ELSE monthOf(localDay(date, west), 1).day

\* new Date(date).getTime(), in days
getTime(date) == date

(***************************************************************************)
(* pegService.js: analyzePegEvents                                         *)
(***************************************************************************)
\* priceData.slice(Math.max(0, index - 3), Math.min(length, index + 4)), index from 0
window(prices, index) ==
    SubSeq(prices, Max(0, index - 3) + 1, Min(Len(prices), index + 4))

MinSeq(s) == CHOOSE x \in {s[i] : i \in 1..Len(s)} : \A i \in 1..Len(s) : x <= s[i]

\* the predicate of priceData.filter, index from 0
isSignificant(prices, index) ==
    /\ exceeds(prices[index + 1].price, 20)
    /\ \/ index < 3
       \/ index > Len(prices) - 4
       \/ LET windowPrices == [i \in 1..Len(window(prices, index)) |-> window(prices, index)[i].price]
          IN  \/ prices[index + 1].price = MaxSeq(windowPrices)
              \/ prices[index + 1].price = MinSeq(windowPrices)

significantEvents(prices) ==
    LET kept == {i \in 0..(Len(prices) - 1) : isSignificant(prices, i)}
        pick[i \in 0..Len(prices)] ==
            IF i = 0 THEN <<>>
            ELSE IF (i - 1) \in kept THEN Append(pick[i - 1], prices[i]) ELSE pick[i - 1]
    IN  pick[Len(prices)]

weekKey(date, west) == <<getFullYear(date, west), getDate(date, west) \div 7>>

\* weeks after the forEach: entries [key, event] in insertion order of the keys
RECURSIVE groupByWeek(_, _, _)
groupByWeek(events, west, weeks) ==
    IF events = <<>> THEN weeks
    ELSE LET event == Head(events)
             key == weekKey(event.date, west)
             at == {i \in 1..Len(weeks) : weeks[i].key = key}
             next == IF at = {}
                     THEN Append(weeks, [key |-> key, event |-> event])
                     ELSE LET i == CHOOSE i \in at : TRUE
                          IN  IF Abs(event.price - idealPeg) > Abs(weeks[i].event.price - idealPeg)
                              THEN [weeks EXCEPT ![i].event = event]
                              ELSE weeks
         IN  groupByWeek(Tail(events), west, next)

describeSwapped(price) ==
    IF exceeds(price, 200) THEN "Significant price deviation"
    ELSE IF exceeds(price, 500) THEN "Major depeg event"
    ELSE IF exceeds(price, 100) THEN "Minor price deviation"
    ELSE IF isBelow(price, 10) THEN "At peg"
    ELSE "Normal market fluctuation"

\* the description chosen for an event's price
describe(price) ==
    IF exceeds(price, 500) THEN "Major depeg event"
    ELSE IF exceeds(price, 200) THEN "Significant price deviation"
    ELSE IF exceeds(price, 100) THEN "Minor price deviation"
    ELSE IF isBelow(price, 10) THEN "At peg"
    ELSE "Normal market fluctuation"

analyzePegEvents(prices, west) ==
    LET weeks == groupByWeek(significantEvents(prices), west, <<>>)
        filteredEvents == SortAsc([i \in 1..Len(weeks) |->
                              [key |-> getTime(weeks[i].event.date), val |-> weeks[i].event]])
    IN  [i \in 1..Len(filteredEvents) |->
            [date |-> filteredEvents[i].val.date,
             price |-> filteredEvents[i].val.price,
             description |-> describe(filteredEvents[i].val.price)]]

(***************************************************************************)
(* Price series: consecutive days from a start date.  A shaped series is   *)
(* quiet days at the peg, a body of deviating prices, quiet days again and *)
(* possibly one more deviating price; a sample series is a short series    *)
(* over a richer set of prices, thresholds included.                       *)
(***************************************************************************)
StartDates == {28, 35, 37}

QuietBefore == {0, 3}

QuietAfter == {0, 3, 25}

BodyPrices == {10080, 9700, 10600}

SamplePrices == {10000, 9985, 10020, 10080, 10100, 9900, 9850, 10200, 9800, 10300,
                 10500, 9500, 9400}

quiet(n) == [i \in 1..n |-> idealPeg]

\* a spiked series: each spike, a price of 1.03, follows a number of quiet
\* days; 2023-12-31 and 2024-01-01 are the start dates
SpikeStarts == {30, 31}

SpikeGaps == {0, 5, 6}

RECURSIVE spiked(_)
spiked(gaps) ==
    IF gaps = <<>> THEN <<>>
    ELSE quiet(Head(gaps)) \o <<10300>> \o spiked(Tail(gaps))

\* prices.map(([timestamp, price]) => ({date, price}))
dated(start, prices) == [i \in 1..Len(prices) |-> [date |-> start + i - 1, price |-> prices[i]]]

IdlePeg ==
    /\ priceData = <<>>
    /\ tzWest = FALSE
    /\ pegCache = [hit |-> FALSE]
    /\ pegResult = [returned |-> FALSE]

(***************************************************************************)
(* auditService.js: getAuditHistory.  Dates are in months, as the clock.   *)
(* An audit file of the code search has a path, the date of its latest     *)
(* commit, and the outcome of the requests made for it:                    *)
(*   "ok"            the commit and, for a markdown file, the content are  *)
(*                   fetched                                               *)
(*   "noCommits"     the commit list of the path is empty                  *)
(*   "commitError"   the commit request fails                              *)
(*   "contentError"  the commit is fetched, the content request fails      *)
(***************************************************************************)
getEightMonthsAgoShort(clock) == clock - 7

\* dateUtils.js: date.setMonth(date.getMonth() - 8)
getEightMonthsAgo(clock) == clock - 8

FileOutcomes == {"ok", "noCommits", "commitError", "contentError"}

\* the commit date of the file is read
commitRead(file) == file.outcome \in {"ok", "contentError"}

\* the audit entry pushed for a file
auditEntry(file) ==
    [firm |-> "Independent Auditor", date |-> file.date, link |-> file.path,
     issues |-> [critical |-> 0, high |-> 0, medium |-> 0, low |-> 0]]

\* the loop over auditFiles: the audits pushed, in file order
RECURSIVE processedAudits(_)
processedAudits(files) ==
    IF files = <<>> THEN <<>>
    ELSE IF Head(files).outcome = "ok"
    THEN <<auditEntry(Head(files))>> \o processedAudits(Tail(files))
    ELSE processedAudits(Tail(files))

\* hasRecentAudit after the loop: set as soon as a commit date is read
hasRecentAudit(files, clock) ==
    \E i \in 1..Len(files) :
        commitRead(files[i]) /\ files[i].date >= getEightMonthsAgo(clock)

\* getAuditHistory once the code search has answered with files
auditsOf(files, clock) ==
    LET pushed == processedAudits(files)
        sorted == SortAsc([i \in 1..Len(pushed) |-> [key |-> 0 - pushed[i].date, val |-> pushed[i]]])
        audits == [i \in 1..Len(sorted) |-> sorted[i].val]
    IN  IF Len(files) = 0 THEN <<>>
        ELSE IF ~hasRecentAudit(files, clock) /\ Len(audits) > 0 THEN <<audits[1]>>
        ELSE audits

\* commit dates relative to the clock 20: inside the window, on its edge,
\* outside it, older than a year
AuditFileDates == {18, 12, 10, 6}

AuditFileLists ==
    {[i \in 1..Len(f) |-> [path |-> i, date |-> f[i][1], outcome |-> f[i][2]]] :
        f \in SeqsUpTo(AuditFileDates \X FileOutcomes, MaxAuditFiles)}

IdleAudit ==
    /\ auditFiles = <<>>
    /\ auditResult = [returned |-> FALSE]

(***************************************************************************)
(* routes/stablecoins.js: GET /:ticker.  The handler is asynchronous: it   *)
(* runs from one await to the next, and the steps of several requests may  *)
(* interleave.  A request is a record: its inputs (ticker, validate), the  *)
(* await it is suspended at (pc), the sub-caches that were hit when the    *)
(* pending calls were made (hits), the handler's locals, and the response. *)
(* ran and failed are the services the request has called and the calls    *)
(* that failed; rateLimited counts the 429 answers that its identity fetch *)
(* has received, caught is the message of the error the handler caught,    *)
(* and concurrent the requests that were in flight when it arrived.        *)
(***************************************************************************)
Services == {"coinGecko", "liquidity", "githubUrl", "githubRepo", "peg", "transparency"}

\* what the provider may answer to a request of fetchCoinInfo
Answers == {"ok", "rateLimited", "forbidden", "timeout", "unavailable"}

RouteTickers == {"USDX", "usdx", "DAI"}

\* a native coin, only a bridged coin, or no coin for the ticker USDX
RouteCatalogues ==
    { <<Coin("usdx", "usdx", "USDX", <<On("ethereum")>>, 0),
        Coin("dai", "dai", "Dai", <<On("ethereum")>>, 0)>>,
      <<Coin("bridged-polygon-usdx", "usdx", "Bridged USDX (Polygon)", <<On("polygon-pos")>>, 0),
        Coin("dai", "dai", "Dai", <<On("ethereum")>>, 0)>>,
      <<Coin("dai", "dai", "Dai", <<On("ethereum")>>, 0)>> }

\* what the upstream services answer when they answer
RepoUrl == "https://github.com/issuer/coin"

UpstreamLiquidity == <<[chain |-> 1, amount |-> 800], [chain |-> 2, amount |-> 240]>>

UpstreamMarketCap == 1000

UpstreamGithubData ==
    [recentCommits |-> 21,
     oracleInfo |-> [usesChainlink |-> TRUE, hasMultipleOracles |-> FALSE,
                     hasTimelock |-> TRUE, hasPriceDeviation |-> FALSE,
                     centralizedOracle |-> FALSE]]

UpstreamPegEvents == <<[date |-> 1, price |-> 9750]>>

UpstreamTransparency == checkTransparency(TRUE, FALSE, TRUE)

reportKeyCaseSensitive(t) == "risk_report_" \o t

\* cacheKey = `risk_report_${ticker.toLowerCase()}`
reportKey(t) == "risk_report_" \o toLowerCase(t)

\* the error axios rejects with for a provider answer: status 0 is an
\* error without a response
axiosError(answer) ==
    [message |-> IF answer = "timeout" THEN "timeout of 10000ms exceeded"
                 ELSE "Request failed",
     isAxiosError |-> TRUE,
     status |-> IF answer = "rateLimited" THEN 429
                ELSE IF answer = "forbidden" THEN 403
                ELSE IF answer = "unavailable" THEN 503 ELSE 0,
     code |-> IF answer = "timeout" THEN "ECONNABORTED" ELSE "ERR_BAD_RESPONSE"]

\* new Error(message)
plainError(message) ==
    [message |-> message, isAxiosError |-> FALSE, status |-> 0, code |-> ""]

\* the response interceptor of coinGeckoClient: a 429 is waited out and
\* the request is issued again, any number of times
retriesRequest(error) == error.status = 429

\* the catch block of fetchCoinInfo
fetchCoinInfoCatch(error) ==
    IF error.isAxiosError /\ error.status = 429
    THEN plainError("CoinGecko API rate limit exceeded. Please try again in a few minutes.")
    ELSE error

\* the coinInfo object of fetchCoinInfo: the fields the route and the
\* engine read
coinDetail(info) ==
    [id |-> info.id, name |-> info.name, collateralType |-> "Unknown",
     github |-> RepoUrl, marketCap |-> UpstreamMarketCap]

errorBody(message, details) == [message |-> message, details |-> details]

\* the catch around fetchCoinInfo in the handler
identityCatch(t, error) ==
    IF includes(error.message, "not found")
    THEN [rethrown |-> FALSE,
          response |-> [status |-> 404,
                        body |-> errorBody("Stablecoin " \o t \o " not found in CoinGecko database",
                                           "Please verify the ticker symbol and try again")]]
    ELSE [rethrown |-> TRUE, error |-> error]

\* the catch around getLiquidityData in the handler
liquidityCatch(t, error) ==
    IF includes(error.message, "not found")
    THEN [rethrown |-> FALSE,
          response |-> [status |-> 404,
                        body |-> errorBody("Stablecoin " \o t \o " not found in DeFiLlama database",
                                           "The stablecoin may be too new or not tracked by DeFiLlama")]]
    ELSE [rethrown |-> TRUE, error |-> error]

\* the outer catch of the handler
outerCatch(error) ==
    IF error.status = 429
    THEN [status |-> 429,
          body |-> errorBody("Rate limit exceeded",
                             "Too many requests. Please try again in a few minutes")]
    ELSE IF error.code = "ECONNABORTED"
    THEN [status |-> 500,
          body |-> errorBody("Request timeout",
                             "The request took too long to complete. Please try again")]
    ELSE IF error.status = 403
    THEN [status |-> 500,
          body |-> errorBody("API access denied", "Please check API key configuration")]
    ELSE [status |-> 500,
          body |-> errorBody("Failed to fetch stablecoin data", "An unexpected error occurred")]

getLiquidityDataRethrows(ok) ==
    IF ok THEN [threw |-> FALSE, liquidityData |-> UpstreamLiquidity]
    ELSE [threw |-> TRUE, error |-> axiosError("unavailable")]

\* liquidityService.js: getLiquidityData catches every error of its request
getLiquidityData(ok) ==
    IF ok THEN [threw |-> FALSE, liquidityData |-> UpstreamLiquidity]
    ELSE [threw |-> FALSE, liquidityData |-> <<>>]

\* liquidityService.js: getGithubUrl catches the errors of both lookups
getGithubUrl(found) == IF found THEN RepoUrl ELSE ""

\* githubService.js: analyzeGithubRepo, its catch block included
analyzeGithubRepo(ok) ==
    IF ok THEN UpstreamGithubData
    ELSE [recentCommits |-> 0,
          oracleInfo |-> [usesChainlink |-> FALSE, hasMultipleOracles |-> FALSE,
                          hasTimelock |-> FALSE, hasPriceDeviation |-> FALSE,
                          centralizedOracle |-> TRUE]]

\* getAuditHistory called with the repository URL: one clean audit found
routeAuditHistoryWithRepoUrl == <<Audit(2, 0, 0)>>

\* the handler calls getAuditHistory(ticker, coinInfo.name): the third
\* parameter repoUrl is undefined and the extractor returns []
routeAuditHistory == <<>>

\* the cross-validation of the market cap, in $M: |cg - dl| / cg > 0.1
discrepanciesOf(validate, coinInfo, liquidityData) ==
    LET cgMarketCap == coinInfo.marketCap
        dlMarketCap == SumSeq([i \in 1..Len(liquidityData) |-> liquidityData[i].amount])
    IN  IF validate /\ 10 * Abs(cgMarketCap - dlMarketCap) > cgMarketCap
        THEN << [field |-> "marketCap", coingeckoValue |-> cgMarketCap,
                 defiLlamaValue |-> dlMarketCap, severity |-> "high"] >>
        ELSE <<>>

\* fullReport = {...riskReport, discrepancies}
fullReport(riskReport, discrepancies) ==
    [report |-> riskReport, discrepancies |-> discrepancies]

\* the end of the handler: score, assemble, store, answer
finishStoresRiskReport(req, pegEvents, transparencyScore, clock) ==
    LET riskReport == calculateRiskScore(
                          [coinInfo |-> req.coinInfo, githubData |-> req.githubData,
                           auditHistory |-> req.auditHistory, pegEvents |-> pegEvents,
                           transparencyScore |-> transparencyScore,
                           liquidityData |-> req.liquidityData], clock)
    IN  [stored |-> fullReport(riskReport, <<>>),
         response |-> [status |-> 200, body |-> fullReport(riskReport, req.discrepancies)]]

\* the end of the handler storing what it sends, status included
finishStoresResponse(req, pegEvents, transparencyScore, clock) ==
    LET riskReport == calculateRiskScore(
                          [coinInfo |-> req.coinInfo, githubData |-> req.githubData,
                           auditHistory |-> req.auditHistory, pegEvents |-> pegEvents,
                           transparencyScore |-> transparencyScore,
                           liquidityData |-> req.liquidityData], clock)
        response == [status |-> 200, body |-> fullReport(riskReport, req.discrepancies)]
    IN  [stored |-> response, response |-> response]

finish(req, pegEvents, transparencyScore, clock) ==
    LET riskReport == calculateRiskScore(
                          [coinInfo |-> req.coinInfo, githubData |-> req.githubData,
                           auditHistory |-> req.auditHistory, pegEvents |-> pegEvents,
                           transparencyScore |-> transparencyScore,
                           liquidityData |-> req.liquidityData], clock)
    IN  [stored |-> fullReport(riskReport, req.discrepancies),
         response |-> [status |-> 200, body |-> fullReport(riskReport, req.discrepancies)]]

NoResponse == [status |-> 0, body |-> NULL]

newRequest(t, validate, inFlight) ==
    [ticker |-> t, validate |-> validate, concurrent |-> inFlight,
     pc |-> "received", hits |-> {}, rateLimited |-> 0, caught |-> "", coinInfo |-> NULL, liquidityData |-> <<>>,
     githubData |-> NULL, auditHistory |-> <<>>, discrepancies |-> <<>>,
     ran |-> {}, failed |-> {}, fromCache |-> FALSE, response |-> NoResponse]

IdleRoute ==
    /\ arrivals = 0
    /\ unhealthy = {}
    /\ requests = <<>>
    /\ reportCache = <<>>
    /\ serviceCache = {}

(***************************************************************************)
(* Idle values of the resolver state                                       *)
(***************************************************************************)
IdleResolver ==
    /\ revision = "none"
    /\ catalogue = <<>>
    /\ ticker = ""
    /\ coinCache = <<>>
    /\ resolution = [kind |-> "idle"]

(***************************************************************************)
(* The scoring engine as a state machine: the caller invokes               *)
(* calculateRiskScore on the data; the wall clock advances between calls.  *)
(***************************************************************************)
\* only the audit factor reads the clock
InitScoring ==
    /\ \/ /\ \E a \in AuditRich, g \in GithubCorner, p \in PegCorner,
                t \in TransparencyCorner, l \in LiquidityCorner :
                data = DataOf(a, g, p, t, l)
          /\ now \in Clocks
       \/ /\ \/ data = DegradedInput
             \/ \E a \in AuditCorner, g \in GithubRich, p \in PegCorner,
                   t \in TransparencyCorner, l \in LiquidityCorner :
                   data = DataOf(a, g, p, t, l)
             \/ \E a \in AuditCorner, g \in GithubCorner, p \in PegRich,
                   t \in TransparencyCorner, l \in LiquidityCorner :
                   data = DataOf(a, g, p, t, l)
             \/ \E a \in AuditCorner, g \in GithubCorner, p \in PegCorner,
                   t \in TransparencyRich, l \in LiquidityCorner :
                   data = DataOf(a, g, p, t, l)
             \/ \E a \in AuditCorner, g \in GithubCorner, p \in PegCorner,
                   t \in TransparencyCorner, l \in LiquidityRich :
                   data = DataOf(a, g, p, t, l)
             \* no repository, no peg events, no liquidity: the scores of the
             \* other factors tie at 2.0 with the audit and transparency scores
             \/ \E a \in AuditRich, t \in TransparencyRich :
                   data = DataOf(a, NULL, <<>>, t, <<>>)
          /\ now = 20
    /\ reports = <<>>
    /\ calledAt = <<>>
    /\ IdleResolver
    /\ IdlePeg
    /\ IdleAudit
    /\ IdleRoute

InitRepeat ==
    /\ \E a \in AuditRich, g \in GithubCorner :
          data = DataOf(a, g, <<>>, <<checkTransparencyFailed, "Unknown">>, <<>>)
    /\ now = 20
    /\ reports = <<>>
    /\ calledAt = <<>>
    /\ IdleResolver
    /\ IdlePeg
    /\ IdleAudit
    /\ IdleRoute

Invoke(maxCalls) ==
    /\ Len(reports) < maxCalls
    /\ reports' = Append(reports, calculateRiskScore(data, now))
    /\ calledAt' = Append(calledAt, now)
    /\ UNCHANGED <<data, now>>
    /\ UNCHANGED resolverVars
    /\ UNCHANGED pegVars
    /\ UNCHANGED auditVars
    /\ UNCHANGED routeVars

InvokeOnce == Invoke(1)

InvokeAgain == Invoke(MaxCalls)

Tick ==
    /\ now < 20 + MaxTicks
    /\ now' = now + 1
    /\ UNCHANGED <<data, reports, calledAt>>
    /\ UNCHANGED resolverVars
    /\ UNCHANGED pegVars
    /\ UNCHANGED auditVars
    /\ UNCHANGED routeVars

NextScoring == InvokeOnce

NextRepeat == InvokeAgain \/ Tick

SpecScoring == InitScoring /\ [][NextScoring]_vars

SpecRepeat == InitRepeat /\ [][NextRepeat]_vars

(***************************************************************************)
(* The resolver as a state machine: fetchCoinInfo with its cache.          *)
(***************************************************************************)
IdleScoring ==
    /\ data = NULL
    /\ now = 0
    /\ reports = <<>>
    /\ calledAt = <<>>

InitResolve ==
    /\ revision \in {"strict", "keyword"}
    /\ catalogue \in Catalogues
    /\ ticker \in Tickers
    /\ coinCache = <<>>
    /\ resolution = [kind |-> "idle"]
    /\ IdleScoring
    /\ IdlePeg
    /\ IdleAudit
    /\ IdleRoute

cacheKey(t) == "coin_info_" \o toLowerCase(t)

cacheSet(cache, key, value) ==
    [k \in DOMAIN cache \cup {key} |-> IF k = key THEN value ELSE cache[k]]

\* the common frame of both revisions: cache lookup, resolution, cache fill
fetchWith(result) ==
    /\ IF cacheKey(ticker) \in DOMAIN coinCache
       THEN /\ resolution' = [kind |-> "cached", coinInfo |-> coinCache[cacheKey(ticker)]]
            /\ UNCHANGED coinCache
       ELSE /\ resolution' = result
            /\ coinCache' = IF result.kind = "coinInfo"
                            THEN cacheSet(coinCache, cacheKey(ticker), result.coinInfo)
                            ELSE coinCache
    /\ UNCHANGED <<revision, catalogue, ticker>>
    /\ UNCHANGED scoringVars
    /\ UNCHANGED pegVars
    /\ UNCHANGED auditVars
    /\ UNCHANGED routeVars

fetchCoinInfoStrict ==
    /\ revision = "strict"
    /\ resolution.kind # "cached"
    /\ \E listOk \in BOOLEAN, detailOk \in BOOLEAN :
          fetchWith(resolveStrict(catalogue, ticker, listOk, detailOk))

fetchCoinInfo ==
    /\ revision = "keyword"
    /\ resolution.kind # "cached"
    /\ \E listOk \in BOOLEAN, detailOk \in BOOLEAN :
          fetchWith(resolveKeyword(catalogue, ticker, listOk, detailOk))

NextResolve == fetchCoinInfoStrict \/ fetchCoinInfo

SpecResolve == InitResolve /\ [][NextResolve]_vars

(***************************************************************************)
(* The peg analysis as a state machine: analyzePegStability with its       *)
(* cache.                                                                  *)
(***************************************************************************)
InitPeg ==
    /\ \/ \E a \in QuietBefore, body \in SeqsUpTo(BodyPrices, MaxBody), b \in QuietAfter,
            tail \in SeqsUpTo(BodyPrices, 1), start \in StartDates :
               priceData = dated(start, quiet(a) \o body \o quiet(b) \o tail)
       \/ \E samples \in SeqsUpTo(SamplePrices, MaxSamples), start \in StartDates :
               priceData = dated(start, samples)
       \/ \E gaps \in SeqsUpTo(SpikeGaps, MaxSpikes), start \in SpikeStarts :
               priceData = dated(start, spiked(gaps))
    /\ tzWest \in BOOLEAN
    /\ pegCache = [hit |-> FALSE]
    /\ pegResult = [returned |-> FALSE]
    /\ IdleScoring
    /\ IdleResolver
    /\ IdleAudit
    /\ IdleRoute

\* fetchOk: the coin is listed and the market chart request succeeds
analyzePegStability ==
    /\ IF pegCache.hit
       THEN /\ pegResult' = [returned |-> TRUE, value |-> pegCache.value]
            /\ UNCHANGED pegCache
       ELSE \E fetchOk \in BOOLEAN :
               IF fetchOk /\ Len(priceData) > 0
               THEN /\ pegResult' = [returned |-> TRUE,
                                     value |-> analyzePegEvents(priceData, tzWest)]
                    /\ pegCache' = [hit |-> TRUE, value |-> analyzePegEvents(priceData, tzWest)]
               ELSE /\ pegResult' = [returned |-> TRUE, value |-> <<>>]
                    /\ UNCHANGED pegCache
    /\ UNCHANGED <<priceData, tzWest>>
    /\ UNCHANGED scoringVars
    /\ UNCHANGED resolverVars
    /\ UNCHANGED auditVars
    /\ UNCHANGED routeVars

NextPeg == analyzePegStability

SpecPeg == InitPeg /\ [][NextPeg]_vars

(***************************************************************************)
(* The audit extractor as a state machine.  The module's cache is read     *)
(* but never written, so every call takes the fetch path.                  *)
(***************************************************************************)
InitAudit ==
    /\ auditFiles \in AuditFileLists
    /\ auditResult = [returned |-> FALSE]
    /\ data = NULL
    /\ now = 20
    /\ reports = <<>>
    /\ calledAt = <<>>
    /\ IdleResolver
    /\ IdlePeg
    /\ IdleRoute

\* repoUrl: a repository URL is passed; searchOk: the code search succeeds
getAuditHistory ==
    /\ \E repoUrl \in BOOLEAN, searchOk \in BOOLEAN :
          auditResult' = [returned |-> TRUE,
                          fetched |-> repoUrl /\ searchOk,
                          value |-> IF repoUrl /\ searchOk
                                    THEN auditsOf(auditFiles, now) ELSE <<>>]
    /\ UNCHANGED auditFiles
    /\ UNCHANGED scoringVars
    /\ UNCHANGED resolverVars
    /\ UNCHANGED pegVars
    /\ UNCHANGED routeVars

NextAudit == getAuditHistory

SpecAudit == InitAudit /\ [][NextAudit]_vars

(***************************************************************************)
(* The report route as a state machine.  arrivals is the number of         *)
(* requests still to arrive, unhealthy the upstream services whose         *)
(* requests may fail, requests the requests received so far, reportCache   *)
(* the route's cache and serviceCache the keys held by the caches of the   *)
(* repository, peg and transparency services.  The resolver's catalogue    *)
(* and coinCache are those of coinGeckoService.js.                         *)
(***************************************************************************)
pegKey(t) == "peg_stability_" \o toLowerCase(t)

transparencyKey(t) == "transparency_" \o toLowerCase(t)

githubKey(repoUrl) == "github_analysis_" \o repoUrl

\* the sub-caches hit by analyzePegStability and checkTransparency
pegHits(t, cached) ==
    (IF pegKey(t) \in cached THEN {"peg"} ELSE {})
        \cup (IF transparencyKey(t) \in cached THEN {"transparency"} ELSE {})

\* the handler leaves through a catch of the identity fetch
thrown(req, error) ==
    LET caught == identityCatch(req.ticker, error)
    IN  [req EXCEPT !.pc = "done",
                    !.failed = @ \cup {"coinGecko"},
                    !.caught = error.message,
                    !.response = IF caught.rethrown THEN outerCatch(caught.error)
                                 ELSE caught.response]

\* fetchCoinInfo after the answer to /coins/list
afterCoinsList(req, coinsList, answer) ==
    IF answer # "ok"
    THEN IF retriesRequest(axiosError(answer))
         THEN [req EXCEPT !.rateLimited = @ + 1]
         ELSE thrown(req, fetchCoinInfoCatch(axiosError(answer)))
    ELSE LET result == resolveKeyword(coinsList, req.ticker, TRUE, TRUE)
         IN  IF result.kind = "error"
             THEN thrown(req, fetchCoinInfoCatch(plainError(result.message)))
             ELSE [req EXCEPT !.pc = "coinDetail"]

\* fetchCoinInfo after the answer to /coins/{id}, and the call of
\* getLiquidityData that follows it in the handler
afterCoinDetail(req, coinsList, answer) ==
    IF answer # "ok"
    THEN IF retriesRequest(axiosError(answer))
         THEN [req EXCEPT !.rateLimited = @ + 1]
         ELSE thrown(req, fetchCoinInfoCatch(axiosError(answer)))
    ELSE [req EXCEPT !.pc = "getLiquidityData",
                     !.coinInfo = coinDetail(resolveKeyword(coinsList, req.ticker, TRUE, TRUE).coinInfo),
                     !.ran = @ \cup {"getLiquidityData"}]

\* the handler from the return of getLiquidityData to the call of
\* getGithubUrl
afterLiquidity(req, ok) ==
    LET liquidityInfo == getLiquidityData(ok)
    IN  IF liquidityInfo.threw
        THEN LET caught == liquidityCatch(req.ticker, liquidityInfo.error)
             IN  [req EXCEPT !.pc = "done",
                             !.failed = @ \cup {"liquidity"},
                             !.caught = liquidityInfo.error.message,
                             !.response = IF caught.rethrown THEN outerCatch(caught.error)
                                          ELSE caught.response]
        ELSE [req EXCEPT !.pc = "getGithubUrl",
                         !.liquidityData = liquidityInfo.liquidityData,
                         !.failed = IF ok THEN @ ELSE @ \cup {"liquidity"},
                         !.ran = @ \cup {"getGithubUrl"}]

\* the handler from the return of getGithubUrl to the next await: the
\* repository analysis when a URL is known, the peg and transparency
\* fetches otherwise
afterGithubUrl(req, found, cached) ==
    LET githubUrl == getGithubUrl(found)
        coinInfo == [req.coinInfo EXCEPT !.github = githubUrl]
        checked == [req EXCEPT !.coinInfo = coinInfo,
                               !.failed = IF found THEN @ ELSE @ \cup {"githubUrl"},
                               !.discrepancies = discrepanciesOf(req.validate, coinInfo,
                                                                 req.liquidityData)]
    IN  IF coinInfo.github # ""
        THEN [checked EXCEPT !.pc = "analyzeGithub",
                             !.hits = IF githubKey(coinInfo.github) \in cached
                                      THEN {"github"} ELSE {},
                             !.ran = @ \cup {"analyzeGithubRepo", "getAuditHistory"}]
        ELSE [checked EXCEPT !.pc = "analyzePeg",
                             !.hits = pegHits(req.ticker, cached),
                             !.ran = @ \cup {"analyzePegStability", "checkTransparency"}]

\* the handler from the repository analysis to the peg and transparency
\* fetches
afterGithubAnalysis(req, ok, cached) ==
    [req EXCEPT !.pc = "analyzePeg",
                !.githubData = analyzeGithubRepo(ok),
                !.auditHistory = routeAuditHistory,
                !.failed = IF ok THEN @ ELSE @ \cup {"githubRepo"},
                !.hits = pegHits(req.ticker, cached),
                !.ran = @ \cup {"analyzePegStability", "checkTransparency"}]

InitRoute ==
    /\ arrivals = 1
    /\ unhealthy = Services
    /\ requests = <<>>
    /\ reportCache = <<>>
    /\ serviceCache = {}
    /\ revision = "keyword"
    /\ catalogue \in RouteCatalogues
    /\ ticker = ""
    /\ coinCache = <<>>
    /\ resolution = [kind |-> "idle"]
    /\ IdleScoring
    /\ IdlePeg
    /\ IdleAudit

\* two requests; at most one upstream service is unhealthy
InitOverlap ==
    /\ arrivals = 2
    /\ unhealthy \in {{}} \cup {{s} : s \in Services}
    /\ requests = <<>>
    /\ reportCache = <<>>
    /\ serviceCache = {}
    /\ revision = "keyword"
    /\ catalogue \in RouteCatalogues
    /\ ticker = ""
    /\ coinCache = <<>>
    /\ resolution = [kind |-> "idle"]
    /\ IdleScoring
    /\ IdlePeg
    /\ IdleAudit

routeFrame ==
    /\ UNCHANGED <<revision, catalogue, ticker, resolution>>
    /\ UNCHANGED scoringVars
    /\ UNCHANGED pegVars
    /\ UNCHANGED auditVars

\* the requests whose handler has not answered yet
inFlight(reqs) == {i \in DOMAIN reqs : reqs[i].pc # "done"}

\* a request arrives: the report cache is read and, on a miss,
\* fetchCoinInfo is called
receive ==
    /\ arrivals > 0
    /\ arrivals' = arrivals - 1
    /\ \E t \in RouteTickers, validate \in BOOLEAN :
          requests' = Append(requests,
              IF reportKey(t) \in DOMAIN reportCache
              THEN [newRequest(t, validate, inFlight(requests)) EXCEPT
                       !.pc = "done",
                       !.fromCache = TRUE,
                       !.response = [status |-> 200, body |-> reportCache[reportKey(t)]]]
              ELSE [newRequest(t, validate, inFlight(requests)) EXCEPT
                       !.pc = "coinsList",
                       !.hits = IF cacheKey(t) \in DOMAIN coinCache THEN {"coin"} ELSE {},
                       !.ran = {"fetchCoinInfo"}])
    /\ UNCHANGED <<unhealthy, reportCache, serviceCache, coinCache>>
    /\ routeFrame

\* fetchCoinInfo returns the cached coinInfo, or /coins/list is answered
coinsListAnswered ==
    /\ \E i \in DOMAIN requests :
          /\ requests[i].pc = "coinsList"
          /\ IF "coin" \in requests[i].hits
             THEN requests' = [requests EXCEPT ![i] =
                      [@ EXCEPT !.pc = "getLiquidityData",
                                !.hits = {},
                                !.coinInfo = coinDetail(coinCache[cacheKey(requests[i].ticker)]),
                                !.ran = @ \cup {"getLiquidityData"}]]
             ELSE \E answer \in Answers :
                     /\ answer = "ok" \/ "coinGecko" \in unhealthy
                     /\ retriesRequest(axiosError(answer)) => requests[i].rateLimited < MaxRetries
                     /\ requests' = [requests EXCEPT ![i] = afterCoinsList(@, catalogue, answer)]
    /\ UNCHANGED <<arrivals, unhealthy, reportCache, serviceCache, coinCache>>
    /\ routeFrame

\* /coins/{id} is answered: fetchCoinInfo caches and returns the coinInfo
coinDetailAnswered ==
    /\ \E i \in DOMAIN requests, answer \in Answers :
          /\ requests[i].pc = "coinDetail"
          /\ answer = "ok" \/ "coinGecko" \in unhealthy
          /\ retriesRequest(axiosError(answer)) => requests[i].rateLimited < MaxRetries
          /\ requests' = [requests EXCEPT ![i] = afterCoinDetail(@, catalogue, answer)]
          /\ coinCache' = IF answer = "ok"
                          THEN cacheSet(coinCache, cacheKey(requests[i].ticker),
                                   resolveKeyword(catalogue, requests[i].ticker, TRUE, TRUE).coinInfo)
                          ELSE coinCache
    /\ UNCHANGED <<arrivals, unhealthy, reportCache, serviceCache>>
    /\ routeFrame

\* getLiquidityData returns; its own cache is never written
liquidityAnswered ==
    /\ \E i \in DOMAIN requests, ok \in BOOLEAN :
          /\ requests[i].pc = "getLiquidityData"
          /\ ok \/ "liquidity" \in unhealthy
          /\ requests' = [requests EXCEPT ![i] = afterLiquidity(@, ok)]
    /\ UNCHANGED <<arrivals, unhealthy, reportCache, serviceCache, coinCache>>
    /\ routeFrame

\* getGithubUrl returns the URL it found, or ''
githubUrlAnswered ==
    /\ \E i \in DOMAIN requests, found \in BOOLEAN :
          /\ requests[i].pc = "getGithubUrl"
          /\ found \/ "githubUrl" \in unhealthy
          /\ requests' = [requests EXCEPT ![i] = afterGithubUrl(@, found, serviceCache)]
    /\ UNCHANGED <<arrivals, unhealthy, reportCache, serviceCache, coinCache>>
    /\ routeFrame

\* Promise.all([analyzeGithubRepo, getAuditHistory]) resolves
githubAnalysed ==
    /\ \E i \in DOMAIN requests, ok \in BOOLEAN :
          /\ requests[i].pc = "analyzeGithub"
          /\ ok \/ ("githubRepo" \in unhealthy /\ "github" \notin requests[i].hits)
          /\ requests' = [requests EXCEPT ![i] = afterGithubAnalysis(@, ok, serviceCache)]
          /\ serviceCache' = IF ok
                             THEN serviceCache \cup {githubKey(requests[i].coinInfo.github)}
                             ELSE serviceCache
    /\ UNCHANGED <<arrivals, unhealthy, reportCache, coinCache>>
    /\ routeFrame

\* Promise.all([analyzePegStability, checkTransparency]) resolves: the
\* report is scored, stored and sent
pegAndTransparencyAnswered ==
    /\ \E i \in DOMAIN requests, pegOk \in BOOLEAN, transparencyOk \in BOOLEAN :
          /\ requests[i].pc = "analyzePeg"
          /\ pegOk \/ ("peg" \in unhealthy /\ "peg" \notin requests[i].hits)
          /\ transparencyOk
                \/ ("transparency" \in unhealthy /\ "transparency" \notin requests[i].hits)
          /\ LET pegEvents == IF pegOk THEN UpstreamPegEvents ELSE <<>>
                 transparencyScore == IF transparencyOk THEN UpstreamTransparency
                                      ELSE checkTransparencyFailed
                 finished == finish(requests[i], pegEvents, transparencyScore, now)
             IN  /\ requests' = [requests EXCEPT ![i] =
                        [@ EXCEPT !.pc = "done",
                                  !.hits = {},
                                  !.failed = @ \cup (IF pegOk THEN {} ELSE {"peg"})
                                               \cup (IF transparencyOk THEN {}
                                                     ELSE {"transparency"}),
                                  !.ran = @ \cup {"calculateRiskScore"},
                                  !.response = finished.response]]
                 /\ reportCache' = cacheSet(reportCache, reportKey(requests[i].ticker),
                                            finished.stored)
          /\ serviceCache' = serviceCache
                               \cup (IF pegOk THEN {pegKey(requests[i].ticker)} ELSE {})
                               \cup (IF transparencyOk
                                     THEN {transparencyKey(requests[i].ticker)} ELSE {})
    /\ UNCHANGED <<arrivals, unhealthy, coinCache>>
    /\ routeFrame

\* an entry of the report cache reaches its time to live (stdTTL 3600)
expire ==
    /\ \E key \in DOMAIN reportCache :
          reportCache' = [k \in DOMAIN reportCache \ {key} |-> reportCache[k]]
    /\ UNCHANGED <<arrivals, unhealthy, requests, serviceCache, coinCache>>
    /\ routeFrame

NextRoute ==
    \/ receive
    \/ coinsListAnswered
    \/ coinDetailAnswered
    \/ liquidityAnswered
    \/ githubUrlAnswered
    \/ githubAnalysed
    \/ pegAndTransparencyAnswered
    \/ expire

SpecRoute == InitRoute /\ [][NextRoute]_vars

SpecOverlap == InitOverlap /\ [][NextRoute]_vars

(***************************************************************************)
(* Claims about the scoring engine                                         *)
(***************************************************************************)
FactorNames == {"auditHistory", "pegStability", "transparency", "oracleSetup", "liquidity"}

\* C1: each of the five factor scores of every returned report lies in the
\* closed range [0,5], the degraded inputs included.
C1_FactorScoresInRange ==
    \A i \in 1..Len(reports) : \A f \in FactorNames :
        /\ reports[i].factors[f].score >= 0
        /\ reports[i].factors[f].score <= 500

\* a report was computed from the all-degraded input
C1_Witness ==
    /\ Len(reports) = 1
    /\ data = DegradedInput
    /\ reports[1].factors.pegStability.score = 500
    /\ reports[1].factors.oracleSetup.score = 200

\* C2: totalScore is the weighted sum of the report's own five factor
\* scores with weights 0.25, 0.25, 0.20, 0.15, 0.15, which sum to 1, and so
\* lies in [0,5] although no clamp is applied to it.
C2_TotalIsWeightedSum ==
    /\ 25 + 25 + 20 + 15 + 15 = 100
    /\ \A i \in 1..Len(reports) :
        LET f == reports[i].factors
        IN  /\ reports[i].totalScore = 25 * f.auditHistory.score
                                       + 25 * f.pegStability.score
                                       + 20 * f.transparency.score
                                       + 15 * f.oracleSetup.score
                                       + 15 * f.liquidity.score
            /\ reports[i].totalScore >= 0
            /\ reports[i].totalScore <= 50000

\* a report whose five factors are not all equal, so the weights matter
C2_Witness ==
    /\ Len(reports) = 1
    /\ reports[1].factors.liquidity.score > reports[1].factors.auditHistory.score
    /\ reports[1].factors.transparency.score < reports[1].factors.pegStability.score
    /\ reports[1].totalScore > 0

\* C3 as stated: any two invocations on the same data return identical
\* reports, whenever they are made.
C3_SameDataSameReport ==
    \A i \in 1..Len(reports) : \A j \in 1..Len(reports) : reports[i] = reports[j]

\* the audits of the data dated within one year before clock value t
C3_RecentAt(t) ==
    {k \in 1..Len(data.auditHistory) : data.auditHistory[k].date >= t - 12}

\* C3 amended: two invocations on the same data return identical reports
\* when the same audits are dated within one year before the clock at both
\* invocations; the clock is the only thing read besides the inputs.
C3_SameDataSameRecencySameReport ==
    \A i \in 1..Len(reports) : \A j \in 1..Len(reports) :
        C3_RecentAt(calledAt[i]) = C3_RecentAt(calledAt[j]) => reports[i] = reports[j]

\* two invocations at different clock values between which no audit aged
\* past one year
C3_Witness ==
    /\ Len(reports) = 2
    /\ calledAt[1] < calledAt[2]
    /\ C3_RecentAt(calledAt[1]) = C3_RecentAt(calledAt[2])
    /\ C3_RecentAt(calledAt[1]) # {}

\* the Audit History score as the claim words it, for audit list a,
\* repository data g and evaluation time t
C10_Expected(a, g, t) ==
    LET n == Len(a)
        recent == Cardinality({k \in 1..n : a[k].date >= t - 12 /\ a[k].date <= t})
        critical == SumSeq([k \in 1..n |-> a[k].issues.critical])
        high == SumSeq([k \in 1..n |-> a[k].issues.high])
        raw == 250
               + (IF n >= 4 THEN 75 ELSE IF n \in {2, 3} THEN 50 ELSE IF n = 1 THEN 25 ELSE 0 - 100)
               + (IF recent >= 2 THEN 75 ELSE IF recent = 1 THEN 50 ELSE 0)
               - 50 * critical
               - (IF high > 2 THEN 25 * (high - 2) ELSE 0)
               + (IF g # NULL /\ g.recentCommits > 20 THEN 25 ELSE 0)
    IN  IF raw < 0 THEN 0 ELSE IF raw > 500 THEN 500 ELSE raw

\* C10: the Audit History score is the single clamp to [0,5] of the base
\* 2.5 plus the audit-count, recency, issue and commit adjustments; one
\* clean audit six months old without commit bonus scores 3.25.
C10_AuditScoreFormula ==
    \A i \in 1..Len(reports) :
        /\ reports[i].factors.auditHistory.score
               = C10_Expected(data.auditHistory, data.githubData, calledAt[i])
        /\ (/\ data.auditHistory = <<Audit(calledAt[i] - 6, 0, 0)>>
            /\ data.githubData = NULL)
           => reports[i].factors.auditHistory.score = 325

\* the scenario of the claim has been scored
C10_Witness ==
    /\ Len(reports) = 1
    /\ data.auditHistory = <<Audit(calledAt[1] - 6, 0, 0)>>
    /\ data.githubData = NULL
    /\ reports[1].factors.auditHistory.score = 325

\* a score where the adjustments sum below 0 and a commit bonus applies
C10_WitnessClamp ==
    /\ Len(reports) = 1
    /\ data.githubData # NULL
    /\ reports[1].factors.auditHistory.score = 0

(***************************************************************************)
(* Claims about the resolver                                               *)
(***************************************************************************)
\* positions of the catalogue whose symbol is the ticker, letter case aside
C4_Matching ==
    {i \in 1..Len(catalogue) : toLowerCase(catalogue[i].symbol) = toLowerCase(ticker)}

\* a bridge-indicator substring, by the table of the revision in use
C4_PatternFlagged ==
    [coin \in CoinPool |->
        [strict |-> matchedCategories(coin, coin.platforms) # {},
         keyword |-> isBridgedToken(coin)]]

\* flagged as a bridge by the detector of the revision in use
C4_Flagged ==
    [coin \in CoinPool |->
        [strict |-> detectBridgeToken(coin, coin.platforms).isBridged,
         keyword |-> isBridgedToken(coin)]]

C4_Mixed ==
    /\ \E i \in C4_Matching : C4_PatternFlagged[catalogue[i]][revision]
    /\ \E i \in C4_Matching : ~C4_PatternFlagged[catalogue[i]][revision]

\* C4: when the candidates matching the ticker include one with a bridge
\* indicator and one without, a candidate selected by fetchCoinInfo (either
\* revision) is never flagged as a bridge.
C4_NeverSelectsBridge ==
    (revision \in {"strict", "keyword"} /\ C4_Mixed /\ resolution.kind = "coinInfo")
        => ~C4_Flagged[resolution.selectedCoin][revision]

\* a mixed catalogue whose bridge-flagged candidate is listed first, resolved
\* to the candidate without indicator, in each revision
C4_Witness ==
    /\ revision \in {"strict", "keyword"}
    /\ C4_Mixed
    /\ resolution.kind = "coinInfo"
    /\ C4_PatternFlagged[catalogue[CHOOSE i \in C4_Matching : \A j \in C4_Matching : i <= j]][revision]
    /\ ~C4_PatternFlagged[resolution.selectedCoin][revision]

C5_AllMatchesBridged ==
    /\ C4_Matching # {}
    /\ \A i \in C4_Matching : C4_Flagged[catalogue[i]][revision]

\* C5: when entries match the ticker but every one of them is a disqualified
\* bridge, fetchCoinInfo fails with a reason different from the one it gives
\* when no entry matches the ticker.
C5_OnlyBridgedDistinguishable ==
    (/\ revision \in {"strict", "keyword"}
     /\ C5_AllMatchesBridged
     /\ resolution.kind = "error"
     /\ resolution.listed)
        => resolution.message # notFoundMessage(ticker)

\* C6: a selected candidate matches the ticker case-insensitively, is not
\* disqualified, has the maximum native score among the non-disqualified
\* matching candidates, and is the first listed among those with that score.
C6_Score == [coin \in CoinPool |-> [strict |-> nativeScore[coin], keyword |-> keywordScore[coin]]]

C6_Qualified == {i \in C4_Matching : ~C4_Flagged[catalogue[i]][revision]}

C6_SelectedIsFirstBest ==
    (revision \in {"strict", "keyword"} /\ resolution.kind = "coinInfo")
        => \E i \in C6_Qualified :
              /\ catalogue[i] = resolution.selectedCoin
              /\ \A j \in C6_Qualified :
                    /\ C6_Score[catalogue[j]][revision] <= C6_Score[catalogue[i]][revision]
                    /\ C6_Score[catalogue[j]][revision] = C6_Score[catalogue[i]][revision]
                           => i <= j

\* two qualified candidates tied at the maximum, a lower one listed before
\* them, and the first of the two selected
C6_Witness ==
    /\ revision = "strict"
    /\ resolution.kind = "coinInfo"
    /\ \E i \in C6_Qualified, j \in C6_Qualified, k \in C6_Qualified :
          /\ k < i
          /\ i < j
          /\ catalogue[i] = resolution.selectedCoin
          /\ nativeScore[catalogue[j]] = nativeScore[catalogue[i]]
          /\ nativeScore[catalogue[k]] < nativeScore[catalogue[i]]

(***************************************************************************)
(* Claims about the peg analysis                                           *)
(***************************************************************************)
\* the (year, floor(day-of-month / 7)) bucket of a returned date
C7_Bucket(date) == <<getFullYear(date, FALSE), getDate(date, FALSE) \div 7>>

\* C7: the sequence returned by analyzePegEvents has no two events in the
\* same (year, floor(day-of-month / 7)) bucket and is in ascending date order.
C7_NoSharedBucketAscending ==
    pegResult.returned =>
        \A i \in 1..Len(pegResult.value) : \A j \in 1..Len(pegResult.value) :
            i < j => /\ C7_Bucket(pegResult.value[i].date) # C7_Bucket(pegResult.value[j].date)
                     /\ pegResult.value[i].date < pegResult.value[j].date

\* the calendar week of a date, Monday to Sunday; 2023-11-27 is a Monday
C8_IsoWeek(date) == (date + 4) \div 7

\* C8: the sequence returned by analyzePegEvents for an ascending daily
\* series has no two events whose dates fall in the same calendar week.
C8_OneEventPerCalendarWeek ==
    pegResult.returned =>
        \A i \in 1..Len(pegResult.value) : \A j \in 1..Len(pegResult.value) :
            i # j => C8_IsoWeek(pegResult.value[i].date) # C8_IsoWeek(pegResult.value[j].date)

\* the description of the claim's table for a price, d being |price - 1| * 100
C9_Expected(price) ==
    CASE exceeds(price, 500) -> "Major depeg event"
      [] ~exceeds(price, 500) /\ exceeds(price, 200) -> "Significant price deviation"
      [] ~exceeds(price, 200) /\ exceeds(price, 100) -> "Minor price deviation"
      [] ~exceeds(price, 100) /\ isBelow(price, 10) -> "At peg"
      [] ~exceeds(price, 100) /\ ~isBelow(price, 10) -> "Normal market fluctuation"

\* C9: every event returned by analyzePegEvents carries the description that
\* the precedence d > 5, d > 2, d > 1, d < 0.1, otherwise, gives its deviation.
C9_DescriptionByPrecedence ==
    pegResult.returned =>
        \A i \in 1..Len(pegResult.value) :
            pegResult.value[i].description = C9_Expected(pegResult.value[i].price)

\* a result with a major depeg on the 5 % threshold next to another event
C9_Witness ==
    /\ pegResult.returned
    /\ Len(pegResult.value) = 2
    /\ \E i \in 1..2 : /\ pegResult.value[i].price = 10500
                       /\ pegResult.value[i].description = "Major depeg event"
    /\ \E i \in 1..2 : pegResult.value[i].description \in
                           {"Normal market fluctuation", "Minor price deviation",
                            "Significant price deviation"}

(***************************************************************************)
(* Claims about the peg and liquidity scorers                              *)
(***************************************************************************)
\* the claim's formula; a deviation is below or above a threshold as the
\* double computed from the price is
C11_Expected(p) ==
    LET n == Len(p)
        maxBelow(t) == \A i \in 1..n : isBelow(p[i].price, t)
        maxAbove(t) == \E i \in 1..n : exceeds(p[i].price, t)
        total == SumSeq([i \in 1..n |-> Abs(p[i].price - 10000)])
        above5 == Cardinality({i \in 1..n : exceeds(p[i].price, 500)})
        raw == 300
               + (IF maxBelow(100) THEN 150 ELSE IF maxBelow(300) THEN 100
                  ELSE IF maxBelow(500) THEN 50 ELSE IF maxAbove(1000) THEN 0 - 100
                  ELSE IF maxAbove(500) THEN 0 - 50 ELSE 0)
               + (IF n > 0 /\ total < 50 * n THEN 50
                  ELSE IF n > 0 /\ total > 200 * n THEN 0 - 50 ELSE 0)
               + (IF above5 = 0 THEN 50 ELSE 0 - 50 * above5)
    IN  IF raw < 0 THEN 0 ELSE IF raw > 500 THEN 500 ELSE raw

\* C11: the Peg Stability score is the clamp to [0,5] of 3.0 plus the
\* maximum-deviation, average-deviation and depeg-count adjustments over the
\* events passed in; maximum 0.8 %, average 0.3 % and no depeg score 5.0.
C11_PegScoreFormula ==
    \A i \in 1..Len(reports) :
        /\ reports[i].factors.pegStability.score = C11_Expected(data.pegEvents)
        /\ (/\ Len(data.pegEvents) = 3
            /\ \A k \in 1..3 : Abs(data.pegEvents[k].price - 10000) <= 80
            /\ \E k \in 1..3 : Abs(data.pegEvents[k].price - 10000) = 80
            /\ SumSeq([k \in 1..3 |-> Abs(data.pegEvents[k].price - 10000)]) = 90)
           => reports[i].factors.pegStability.score = 500

\* the scenario of the claim (0.8 %, 0.05 %, 0.05 %) has been scored
C11_Witness ==
    /\ Len(reports) = 1
    /\ Len(data.pegEvents) = 3
    /\ data.pegEvents[1].price = 10080
    /\ data.pegEvents[2].price = 10005
    /\ data.pegEvents[3].price = 10005
    /\ reports[1].factors.pegStability.score = 500

\* two events above 5 %, one of them exactly on 10 %, have been scored
C11_WitnessDepegs ==
    /\ Len(reports) = 1
    /\ Len(data.pegEvents) = 2
    /\ data.pegEvents[1].price = 11000
    /\ data.pegEvents[2].price = 10500
    /\ reports[1].factors.pegStability.score = 50

\* total liquidity and the largest chain's amount, in $M
C12_Total(l) == SumSeq([i \in 1..Len(l) |-> l[i].amount])

C12_Top(l) == IF Len(l) = 0 THEN 0 ELSE MaxSeq([i \in 1..Len(l) |-> l[i].amount])

\* the chain-count and concentration adjustments of the claim
C12_Shape(l) ==
    (IF Len(l) >= 5 THEN 50 ELSE IF Len(l) <= 1 THEN 0 - 50 ELSE 0)
    + (IF C12_Total(l) = 0 THEN 50
       ELSE IF 100 * C12_Top(l) > 90 * C12_Total(l) THEN 0 - 75
       ELSE IF 100 * C12_Top(l) > 75 * C12_Total(l) THEN 0 - 50
       ELSE IF 100 * C12_Top(l) < 50 * C12_Total(l) THEN 50
       ELSE 0)

C12_Clamped(raw) == IF raw < 0 THEN 0 ELSE IF raw > 500 THEN 500 ELSE raw

C12_Expected(l) ==
    C12_Clamped(250
                + (IF C12_Total(l) >= 5000 THEN 150 ELSE IF C12_Total(l) >= 1000 THEN 100
                   ELSE IF C12_Total(l) >= 500 THEN 50 ELSE 0)
                + C12_Shape(l))

C13_LowEndCumulative ==
    \A i \in 1..Len(reports) :
        /\ (C12_Total(data.liquidityData) < 100 /\ C12_Total(data.liquidityData) >= 10)
              => reports[i].factors.liquidity.score
                     = C12_Clamped(250 - 50 + C12_Shape(data.liquidityData))
        /\ C12_Total(data.liquidityData) < 10
              => reports[i].factors.liquidity.score
                     = C12_Clamped(250 - 150 + C12_Shape(data.liquidityData))

(***************************************************************************)
(* Claims about the audit extractor                                        *)
(***************************************************************************)
\* the files for which a record was made, and those of them inside the window
C14_Processed == {i \in 1..Len(auditFiles) : auditFiles[i].outcome = "ok"}

C14_InWindow(date) == date >= now - 8

C14_NewestFirst(audits) ==
    \A i \in 1..Len(audits) : \A j \in 1..Len(audits) :
        i < j => audits[i].date >= audits[j].date

\* C14: the returned sequence is newest-first; with a processed file inside
\* the 8-month window it holds only records inside the window; with processed
\* files but none inside the window it holds exactly the most recent record.
C14_OnlyWindowRecords ==
    (auditResult.returned /\ auditResult.fetched) =>
        /\ C14_NewestFirst(auditResult.value)
        /\ (\E i \in C14_Processed : C14_InWindow(auditFiles[i].date))
              => \A k \in 1..Len(auditResult.value) : C14_InWindow(auditResult.value[k].date)
        /\ (/\ C14_Processed # {}
            /\ \A i \in C14_Processed : ~C14_InWindow(auditFiles[i].date))
              => /\ Len(auditResult.value) = 1
                 /\ \A i \in C14_Processed : auditFiles[i].date <= auditResult.value[1].date

\* a file whose commit date was read and lies inside the window
C14_RecentSeen ==
    \E i \in 1..Len(auditFiles) :
        /\ auditFiles[i].outcome \in {"ok", "contentError"}
        /\ C14_InWindow(auditFiles[i].date)

\* C14 as the code has it: the returned sequence is newest-first; when the
\* commit date of some file lies inside the window it holds one record for
\* every processed file, whatever its age; otherwise, if any file was
\* processed, it holds exactly the most recent record.
C14_AllRecordsWhenRecent ==
    (auditResult.returned /\ auditResult.fetched) =>
        /\ C14_NewestFirst(auditResult.value)
        /\ C14_RecentSeen
              => /\ Len(auditResult.value) = Cardinality(C14_Processed)
                 /\ \A i \in C14_Processed :
                       \E k \in 1..Len(auditResult.value) : auditResult.value[k].link = i
        /\ (~C14_RecentSeen /\ C14_Processed # {})
              => /\ Len(auditResult.value) = 1
                 /\ \A i \in C14_Processed : auditFiles[i].date <= auditResult.value[1].date
        /\ C14_Processed = {} => auditResult.value = <<>>

\* a processed file on the edge of the window next to an older one, both
\* returned, the older one last
C14_Witness ==
    /\ auditResult.returned
    /\ Len(auditResult.value) = 2
    /\ auditResult.value[1].date = 12
    /\ auditResult.value[2].date = 6

(***************************************************************************)
(* Claims about the report route                                           *)
(***************************************************************************)
\* the request has been answered
C15_Answered(req) == req.pc = "done"

\* identity resolution ended in a NotFound condition: no listed coin has
\* the ticker's symbol, or the best match is a bridged coin
C15_NotFound(req) ==
    req.caught \in {notFoundMessage(req.ticker), onlyBridgedMessage(req.ticker)}

\* C15: a request whose identity resolution ends in either NotFound
\* condition (no catalogue entry matches the ticker; only bridged versions
\* are found) is answered with status 404 and a not-found message, never
\* with the generic 500 failure.
C15_NotFoundAnswers404 ==
    \A i \in DOMAIN requests :
        (C15_Answered(requests[i]) /\ C15_NotFound(requests[i]))
           => /\ requests[i].response.status = 404
              /\ includes(requests[i].response.body.message, "not found")

\* the no-match condition alone is answered with the 404 response
C15_NoMatchAnswers404 ==
    \A i \in DOMAIN requests :
        (C15_Answered(requests[i]) /\ requests[i].caught = notFoundMessage(requests[i].ticker))
           => requests[i].response.status = 404

\* C16: a request whose identity fetch the provider rejected with a 429 is
\* answered with status 429 and the message 'Rate limit exceeded', not
\* with another response.
C16_RateLimitedAnswers429 ==
    \A i \in DOMAIN requests :
        (requests[i].pc = "done" /\ requests[i].rateLimited > 0)
           => /\ requests[i].response.status = 429
              /\ requests[i].response.body.message = "Rate limit exceeded"

\* the route never sends the 429 response at all
C16_Never429 ==
    \A i \in DOMAIN requests : requests[i].response.status # 429

C17_ReportFields ==
    {"coinInfo", "totalScore", "summary", "factors", "pegEvents", "auditHistory",
     "liquidityData"}

C17_NonCritical == {"liquidity", "githubUrl", "githubRepo", "transparency"}

\* the report is complete and every failed signal has its default value
C17_Degraded(req) ==
    LET report == req.response.body.report
    IN  /\ req.response.status = 200
        /\ DOMAIN report = C17_ReportFields
        /\ DOMAIN report.factors = FactorNames
        /\ "liquidity" \in req.failed =>
              /\ report.liquidityData = <<>>
              /\ report.factors.liquidity = calculateLiquidityScore(<<>>)
        /\ "githubUrl" \in req.failed =>
              /\ report.coinInfo.github = ""
              /\ report.auditHistory = <<>>
              /\ report.factors.oracleSetup = calculateOracleScore(NULL)
        /\ "githubRepo" \in req.failed =>
              /\ report.auditHistory = <<>>
              /\ report.factors.oracleSetup = calculateOracleScore(analyzeGithubRepo(FALSE))
        /\ "transparency" \in req.failed =>
              report.factors.transparency
                 = calculateTransparencyScore(checkTransparencyFailed, report.coinInfo)

\* C17: once identity resolution has succeeded, no failure of a
\* non-critical fetch (liquidity, GitHub URL discovery, repository
\* analysis, audit mining, transparency scrape) aborts the request: it is
\* answered 200 with a complete report in which every failed signal has
\* its empty or default value.
C17_NonCriticalFailuresDegrade ==
    \A i \in DOMAIN requests :
        (requests[i].pc = "done" /\ requests[i].coinInfo # NULL)
           => C17_Degraded(requests[i])

\* a request answered although liquidity, repository analysis and the
\* transparency scrape all failed
C17_Witness ==
    \E i \in DOMAIN requests :
        /\ requests[i].pc = "done"
        /\ requests[i].coinInfo # NULL
        /\ {"liquidity", "githubRepo", "transparency"} \subseteq requests[i].failed
        /\ requests[i].response.status = 200

\* a request answered although the GitHub URL discovery failed
C17_WitnessNoGithubUrl ==
    \E i \in DOMAIN requests :
        /\ requests[i].pc = "done"
        /\ requests[i].failed = {"githubUrl"}
        /\ requests[i].response.status = 200

\* C18: a request whose identity resolution succeeded and whose peg and
\* transparency fetches both fail is answered with status 500 and the
\* message 'Failed to analyze stablecoin data', and no report is stored
\* for it.
C18_JointFailureAborts ==
    \A i \in DOMAIN requests :
        (requests[i].pc = "done" /\ requests[i].coinInfo # NULL
            /\ {"peg", "transparency"} \subseteq requests[i].failed)
           => /\ requests[i].response.status = 500
              /\ requests[i].response.body.message = "Failed to analyze stablecoin data"
              /\ reportKey(requests[i].ticker) \notin DOMAIN reportCache

\* the key of the report cache: the lowercased ticker
C19_Key(t) == "risk_report_" \o toLowerCase(t)

\* this step is the arrival of a request
C19_Arrives == Len(requests') = Len(requests) + 1

\* request i is answered in this step with a report it has computed
C19_Completes(i) ==
    /\ i \in DOMAIN requests
    /\ requests[i].pc # "done"
    /\ requests'[i].pc = "done"
    /\ requests'[i].response.status = 200

\* C19: after a request has completed successfully its report is stored
\* under the lowercased ticker, and until that entry expires every request
\* arriving for the same ticker in any letter case is answered with the
\* stored report without calling identity resolution, any fetch or the
\* scoring engine and without touching any cache; a request for a ticker
\* with another lowercased form does not read the entry and takes the
\* fetch path.
C19_StoredReportAnswersLaterRequests ==
    [][ /\ \A i \in DOMAIN requests :
              C19_Completes(i) =>
                 /\ C19_Key(requests[i].ticker) \in DOMAIN reportCache'
                 /\ reportCache'[C19_Key(requests[i].ticker)] = requests'[i].response.body
        /\ C19_Arrives =>
              LET req == requests'[Len(requests')]
              IN  IF C19_Key(req.ticker) \in DOMAIN reportCache
                  THEN /\ req.pc = "done"
                       /\ req.response = [status |-> 200,
                                          body |-> reportCache[C19_Key(req.ticker)]]
                       /\ req.ran = {}
                       /\ UNCHANGED <<reportCache, coinCache, serviceCache>>
                  ELSE /\ req.pc # "done"
                       /\ req.response = NoResponse
                       /\ req.ran = {"fetchCoinInfo"}
      ]_vars

\* a request typed in another letter case is answered from the entry a
\* completed request has stored
C19_Witness ==
    /\ Len(requests) = 2
    /\ requests[1].ticker # requests[2].ticker
    /\ toLowerCase(requests[1].ticker) = toLowerCase(requests[2].ticker)
    /\ requests[1].response.status = 200
    /\ requests[2].fromCache
    /\ requests[2].response = requests[1].response

\* a request for another ticker arrives while the entry is stored and is
\* not answered from it
C19_WitnessOtherTicker ==
    /\ Len(requests) = 2
    /\ requests[1].ticker = "USDX"
    /\ requests[2].ticker = "DAI"
    /\ requests[2].concurrent = {}
    /\ C19_Key("USDX") \in DOMAIN reportCache
    /\ ~requests[2].fromCache

C20_Pipeline ==
    {"fetchCoinInfo", "getLiquidityData", "getGithubUrl", "analyzePegStability",
     "checkTransparency", "calculateRiskScore"}

\* requests i and j are for the same ticker, j arrived while i was in
\* flight, and both have been answered
C20_Overlapped(i, j) ==
    /\ i \in requests[j].concurrent
    /\ toLowerCase(requests[i].ticker) = toLowerCase(requests[j].ticker)
    /\ requests[i].pc = "done"
    /\ requests[j].pc = "done"

\* both requests met the same upstream: neither identity fetch failed and
\* the same fetches failed for both
C20_SameUpstream(i, j) ==
    /\ "coinGecko" \notin requests[i].failed
    /\ requests[i].failed = requests[j].failed

\* C20: two overlapping requests for the same uncached ticker both run the
\* pipeline (the second is not answered from the cache and nothing is
\* deduplicated); when identity resolution succeeds for both, both are
\* answered with a report; the report cache entry of the ticker, while it
\* is held, is the report one of the two was answered with; and when both
\* met the same upstream answers and asked for the same validation the two
\* reports are equal.
C20_OverlapBothRunAndCacheHoldsTheirReport ==
    \A i \in DOMAIN requests : \A j \in DOMAIN requests :
        C20_Overlapped(i, j) =>
           /\ ~requests[i].fromCache /\ ~requests[j].fromCache
           /\ "fetchCoinInfo" \in requests[i].ran /\ "fetchCoinInfo" \in requests[j].ran
           /\ \A k \in {i, j} :
                 "coinGecko" \notin requests[k].failed =>
                    /\ C20_Pipeline \subseteq requests[k].ran
                    /\ requests[k].response.status = 200
           /\ reportKey(requests[i].ticker) \in DOMAIN reportCache =>
                 reportCache[reportKey(requests[i].ticker)]
                    \in {requests[i].response.body, requests[j].response.body}
           /\ (C20_SameUpstream(i, j) /\ requests[i].validate = requests[j].validate) =>
                 requests[i].response = requests[j].response

\* two overlapping requests, typed in different letter cases, have both
\* run the pipeline and the cache holds the report of both
C20_Witness ==
    /\ Len(requests) = 2
    /\ C20_Overlapped(1, 2)
    /\ requests[1].ticker # requests[2].ticker
    /\ C20_Pipeline \subseteq requests[1].ran
    /\ C20_Pipeline \subseteq requests[2].ran
    /\ requests[1].response.status = 200
    /\ requests[2].response = requests[1].response
    /\ reportKey(requests[1].ticker) \in DOMAIN reportCache
    /\ reportCache[reportKey(requests[1].ticker)] = requests[1].response.body

\* the overlapping requests were answered with different reports and the
\* cache holds the one answered last
C20_WitnessDifferentReports ==
    /\ Len(requests) = 2
    /\ C20_Overlapped(1, 2)
    /\ requests[1].response.status = 200
    /\ requests[2].response.status = 200
    /\ requests[1].response # requests[2].response
    /\ reportKey(requests[1].ticker) \in DOMAIN reportCache

(***************************************************************************)
(* Claims about the candidate filter, the boundaries of the descriptions   *)
(* and the number of events                                                *)
(***************************************************************************)
\* the price of the sample is the maximum or the minimum of its window
C21_LocalExtreme(prices, index) ==
    LET windowPrices == [i \in 1..Len(window(prices, index)) |-> window(prices, index)[i].price]
    IN  \/ prices[index + 1].price = MaxSeq(windowPrices)
        \/ prices[index + 1].price = MinSeq(windowPrices)

C21_Edge(prices, index) == index < 3 \/ index > Len(prices) - 4

\* C21: a sample is kept as a significant candidate when its deviation
\* exceeds 0.2 %, or when it is among the first 3 or last 3 samples, or
\* when its price is the maximum or minimum of its 7-sample window: each
\* condition alone suffices.
C21_EachConditionSufficient ==
    \A index \in 0..(Len(priceData) - 1) :
        (\/ exceeds(priceData[index + 1].price, 20)
         \/ C21_Edge(priceData, index)
         \/ C21_LocalExtreme(priceData, index))
           => \E k \in 1..Len(significantEvents(priceData)) :
                 significantEvents(priceData)[k] = priceData[index + 1]

\* what the filter does: the deviation must exceed 0.2 %, and in addition
\* the sample must be at an edge or a local extreme
C21_DeviationAndPosition ==
    \A index \in 0..(Len(priceData) - 1) :
        (\E k \in 1..Len(significantEvents(priceData)) :
             significantEvents(priceData)[k] = priceData[index + 1])
           <=> /\ exceeds(priceData[index + 1].price, 20)
               /\ C21_Edge(priceData, index) \/ C21_LocalExtreme(priceData, index)

\* the description of the more severe of the two buckets that meet at a
\* deviation of exactly 5 %, 2 % or 1 %
C22_HigherSeverity(price) ==
    IF Abs(price - idealPeg) = 500 THEN "Major depeg event"
    ELSE IF Abs(price - idealPeg) = 200 THEN "Significant price deviation"
    ELSE "Minor price deviation"

\* C22: a returned peg event whose price deviates from the peg by exactly
\* 5 %, 2 % or 1 % carries the description of the more severe adjacent
\* bucket: 'Major depeg event', 'Significant price deviation', 'Minor price
\* deviation'.
C22_BoundaryTakesHigherSeverity ==
    pegResult.returned =>
        \A i \in 1..Len(pegResult.value) :
            Abs(pegResult.value[i].price - idealPeg) \in {500, 200, 100}
               => pegResult.value[i].description = C22_HigherSeverity(pegResult.value[i].price)

\* events at 0.95 and at 1.02 have been returned, as major and significant
C22_Witness ==
    /\ pegResult.returned
    /\ \E i \in 1..Len(pegResult.value) :
          /\ pegResult.value[i].price = 9500
          /\ pegResult.value[i].description = "Major depeg event"
    /\ \E i \in 1..Len(pegResult.value) :
          /\ pegResult.value[i].price = 10200
          /\ pegResult.value[i].description = "Significant price deviation"

\* an event at 0.99 has been returned as minor
C22_WitnessMinor ==
    /\ pegResult.returned
    /\ \E i \in 1..Len(pegResult.value) :
          /\ pegResult.value[i].price = 9900
          /\ pegResult.value[i].description = "Minor price deviation"

(***************************************************************************)
(* Claims about degraded signals in the report                             *)
(***************************************************************************)
\* C23: when the repository analysis of a known repository fails, the
\* Oracle Setup factor of the report has the fixed score 2.0 and the
\* description 'Limited information available about oracle
\* implementation', exactly as when no repository is known.
C23_AdapterFailureIsNoSignal ==
    \A i \in DOMAIN requests :
        (requests[i].pc = "done" /\ "githubRepo" \in requests[i].failed)
           => /\ requests[i].response.body.report.factors.oracleSetup.score = 200
              /\ requests[i].response.body.report.factors.oracleSetup.description
                    = "Limited information available about oracle implementation"
              /\ requests[i].response.body.report.factors.oracleSetup
                    = calculateOracleScore(NULL)

\* what the report holds instead: 2.5 less the penalty of a centralized
\* oracle
C23_AdapterFailureScoresCentralized ==
    \A i \in DOMAIN requests :
        (requests[i].pc = "done" /\ "githubRepo" \in requests[i].failed)
           => /\ requests[i].response.body.report.factors.oracleSetup.score = 150
              /\ requests[i].response.body.report.factors.oracleSetup.description
                    = "Concerning oracle setup with significant vulnerabilities"

(***************************************************************************)
(* Claims about the summary                                                *)
(***************************************************************************)
C24_SummaryNames ==
    {"audit history", "peg stability", "transparency", "oracle setup", "liquidity"}

\* the score of the factor a summary name stands for
C24_ScoreOf(report, name) ==
    IF name = "audit history" THEN report.factors.auditHistory.score
    ELSE IF name = "peg stability" THEN report.factors.pegStability.score
    ELSE IF name = "transparency" THEN report.factors.transparency.score
    ELSE IF name = "oracle setup" THEN report.factors.oracleSetup.score
    ELSE report.factors.liquidity.score

C24_Strengths(report) == {report.summary.strengths[i] : i \in 1..Len(report.summary.strengths)}

\* C24: the summary names two distinct factors as strengths, and no factor
\* left unnamed scores strictly higher than a named one; it names one
\* factor as key challenge, and that factor has the minimum of the five
\* scores.
C24_StrengthsHighestChallengeLowest ==
    \A k \in 1..Len(reports) :
        LET report == reports[k]
        IN  /\ Len(report.summary.strengths) = 2
            /\ Cardinality(C24_Strengths(report)) = 2
            /\ C24_Strengths(report) \subseteq C24_SummaryNames
            /\ \A s \in C24_Strengths(report) :
                  \A other \in C24_SummaryNames \ C24_Strengths(report) :
                      C24_ScoreOf(report, other) <= C24_ScoreOf(report, s)
            /\ Len(report.summary.weaknesses) = 1
            /\ \A other \in C24_SummaryNames :
                  C24_ScoreOf(report, report.summary.weaknesses[1]) <= C24_ScoreOf(report, other)

\* a report whose five scores are pairwise different, its two highest
\* named as strengths and its lowest as key challenge
C24_Witness ==
    \E k \in 1..Len(reports) :
        /\ \A a \in C24_SummaryNames : \A b \in C24_SummaryNames :
              a # b => C24_ScoreOf(reports[k], a) # C24_ScoreOf(reports[k], b)
        /\ \A other \in C24_SummaryNames \ C24_Strengths(reports[k]) :
              \A s \in C24_Strengths(reports[k]) :
                  C24_ScoreOf(reports[k], other) < C24_ScoreOf(reports[k], s)

\* C25: the factor named as key challenge is never one of the two factors
\* named as strengths of the same summary, ties among the scores included.
C25_ChallengeIsNoStrength ==
    \A k \in 1..Len(reports) :
        reports[k].summary.weaknesses[1] \notin C24_Strengths(reports[k])

\* unless the four lowest scores are equal, the key challenge is not a
\* strength
C25_DisjointUnlessLowestFourTie ==
    \A k \in 1..Len(reports) :
        reports[k].summary.weaknesses[1] \in C24_Strengths(reports[k])
           => \E top \in C24_SummaryNames :
                 \A a \in C24_SummaryNames \ {top} : \A b \in C24_SummaryNames \ {top} :
                     C24_ScoreOf(reports[k], a) = C24_ScoreOf(reports[k], b)

(***************************************************************************)
(* Claims about the peg factor of a failed fetch                           *)
(***************************************************************************)
\* C26: the empty sequence of peg events scores 5.0, the maximum, and a
\* request whose peg analysis failed answers with a report whose peg
\* events are empty and whose Peg Stability factor has that score.
C26_FailedPegFetchScoresMaximum ==
    /\ calculatePegStabilityScore(<<>>).score = 500
    /\ \A i \in DOMAIN requests :
          (requests[i].pc = "done" /\ "peg" \in requests[i].failed)
             => /\ requests[i].response.status = 200
                /\ requests[i].response.body.report.pegEvents = <<>>
                /\ requests[i].response.body.report.factors.pegStability.score = 500
                /\ requests[i].response.body.report.factors.pegStability.description
                      = getPegStabilityDescription(500)

\* a request whose peg analysis failed while every other upstream answered,
\* beside which the same coin with its peg events scores lower
C26_Witness ==
    \E i \in DOMAIN requests :
        /\ requests[i].pc = "done"
        /\ requests[i].failed = {"peg"}
        /\ requests[i].response.body.report.factors.pegStability.score = 500
        /\ calculatePegStabilityScore(UpstreamPegEvents).score < 500

(***************************************************************************)
(* Claims about the report cache                                           *)
(***************************************************************************)
\* the request computed the report itself: calculateRiskScore applied to
\* the handler's locals and to what the peg and transparency services
\* returned
C27_AssembledBy(req, value) ==
    /\ req.pc = "done"
    /\ ~req.fromCache
    /\ req.response.status = 200
    /\ req.coinInfo # NULL
    /\ "calculateRiskScore" \in req.ran
    /\ value = req.response.body
    /\ \E pegEvents \in {<<>>, UpstreamPegEvents},
          transparencyScore \in {UpstreamTransparency, checkTransparencyFailed} :
          value = fullReport(
                     calculateRiskScore(
                        [coinInfo |-> req.coinInfo, githubData |-> req.githubData,
                         auditHistory |-> req.auditHistory, pegEvents |-> pegEvents,
                         transparencyScore |-> transparencyScore,
                         liquidityData |-> req.liquidityData], now),
                     req.discrepancies)

C27_HoldsFullReports ==
    \A key \in DOMAIN reportCache :
        \E i \in DOMAIN requests :
            /\ reportKey(requests[i].ticker) = key
            /\ C27_AssembledBy(requests[i], reportCache[key])

\* the requests that a step answers
C27_Answered ==
    {i \in DOMAIN requests' :
        /\ requests'[i].pc = "done"
        /\ i \in DOMAIN requests => requests[i].pc # "done"}

C27_ErrorLeavesCache ==
    (\E i \in C27_Answered : requests'[i].response.status \in {404, 429, 500})
       => reportCache' = reportCache

\* C27: every entry of the report cache is, under the key of its ticker, the
\* full report that a request for that ticker assembled with
\* calculateRiskScore, and a step that answers a request with 404, 429 or
\* 500 leaves the cache unchanged.
C27_CacheHoldsOnlyFullReports ==
    /\ []C27_HoldsFullReports
    /\ [][C27_ErrorLeavesCache]_vars

\* one request was answered with its report, which the cache holds, and
\* another one with an error
C27_Witness ==
    /\ Len(requests) = 2
    /\ \E i \in {1, 2} :
          /\ DOMAIN reportCache = {reportKey(requests[i].ticker)}
          /\ C27_AssembledBy(requests[i], reportCache[reportKey(requests[i].ticker)])
          /\ requests[3 - i].pc = "done"
          /\ requests[3 - i].response.status \in {404, 429, 500}

(***************************************************************************)
(* Claims about the audit history of the route                             *)
(***************************************************************************)
\* C28: every report that GET /:ticker answers with has an empty audit
\* history, and its Audit History factor scores at most 1.75.
C28_RouteAuditHistoryEmpty ==
    \A i \in DOMAIN requests :
        (requests[i].pc = "done" /\ requests[i].response.status = 200)
           => /\ requests[i].response.body.report.auditHistory = <<>>
              /\ requests[i].response.body.report.factors.auditHistory.score <= 175

\* a request whose repository was found and analysed, so that
\* getAuditHistory was called: the factor reaches 1.75 by the commit bonus
C28_Witness ==
    \E i \in DOMAIN requests :
        /\ requests[i].pc = "done"
        /\ requests[i].response.status = 200
        /\ requests[i].githubData = UpstreamGithubData
        /\ requests[i].response.body.report.auditHistory = <<>>
        /\ requests[i].response.body.report.factors.auditHistory.score = 175

(***************************************************************************)
(* Claims about the retries of the market-data client                      *)
(***************************************************************************)
\* C29: the response interceptor of the market-data client issues a
\* request again at most 3 times: while the handler waits for /coins/list,
\* the first request of its identity fetch, that request has been answered
\* with 429 and issued again at most 3 times.
C29_AtMostThreeRetries ==
    \A i \in DOMAIN requests :
        requests[i].pc = "coinsList" => requests[i].rateLimited <= 3

(***************************************************************************)
(* Claims about the number of events of a year                             *)
(***************************************************************************)
\* the year of a 'YYYY-MM-DD' date
C30_YearOf(date) == getFullYear(date, FALSE)

C30_Years == {Months[m].year : m \in 1..Len(Months)}

C30_EventsOfYear(events, year) ==
    {i \in 1..Len(events) : C30_YearOf(events[i].date) = year}

\* C30: the returned sequence holds at most 5 events dated in any one
\* calendar year.
C30_AtMostFivePerCalendarYear ==
    pegResult.returned =>
       \A year \in C30_Years :
           Cardinality(C30_EventsOfYear(pegResult.value, year)) <= 5

\* counted by the year that the host's clock gives to each date, the events
\* of one year are at most 5, one per value of floor(day-of-month / 7)
C30_AtMostFivePerLocalYear ==
    pegResult.returned =>
       \A year \in C30_Years :
           Cardinality({i \in 1..Len(pegResult.value) :
                           getFullYear(pegResult.value[i].date, tzWest) = year}) <= 5

\* six events dated in 2024 on a host west of UTC
C30_SixEventsOfOneYear ==
    /\ pegResult.returned
    /\ tzWest
    /\ Cardinality(C30_EventsOfYear(pegResult.value, 2024)) = 6

=============================================================================
